---- MODULE Spec2Model ----
(***************************************************************************)
(* meeting-ai: the real-time audio pipeline.                               *)
(*                                                                         *)
(*  - AudioBuffer / ReconnectManager (module `resilience`): the bounded    *)
(*    ring buffer and the connection-state relay.  The module itself is    *)
(*    described by spec.md sections 3 and 4.2 and by                       *)
(*    src/tests/test_resilience.py; its operations are modelled from them. *)
(*  - DeepgramTranscriber (src/transcriber.py): the streaming session.     *)
(*  - has_wake_word / extract_question and ConversationHandler             *)
(*    (src/conversation.py): the wake-word arbiter.                        *)
(*  - VoiceResponder (src/voice_responder.py): paced playback.             *)
(*  - start_capture_stream (src/audio_capture.py): the two-source mixer.   *)
(*                                                                         *)
(* An audio chunk is a record [id, len]: id is the position of the chunk   *)
(* in the capture order (it stands for the chunk's content), len its size  *)
(* in bytes.  A text is a sequence of one-character strings.               *)
(***************************************************************************)
EXTENDS Integers, Sequences, FiniteSets

\* ---------------------------------------------------------------- bounds
MaxCapacity == 2
MaxChunkLen == 2
MaxWrites == 3
MaxReconnects == 2
MaxChunks == 3
MaxEvents == 2
MaxTokens == 4
MaxLines == 3
MaxSpeaks == 2
MaxFrames == 2
MaxStops == 1
MaxPrimary == 3
MaxMic == 2
MaxPayload == 330
MaxSamples == 6
MaxMessages == 4
MaxWords == 5
MaxConnections == 2
MaxSessions == 2
MaxFileLines == 5
\* cooldown_seconds, in polls, and min_new_lines of the MonitorConfig in use
CooldownPolls == 2
MinNewLines == 2

\* ------------------------------------------------------ program constants
\* reconnect deadline in seconds (reconnect_timeout_s)
ReconnectDeadline == 5
\* the quiet period of a collection, 1.5 s, in sleeps of the 0.5 s poll loop
QuietPeriodTicks == 3
\* the length below which a collected question is dropped
MinQuestionLen == 3
\* bytes of mulaw audio in one media message (20 ms at 8 kHz)
TWILIO_CHUNK_SIZE == 160
\* the mulaw encoder's bias and clipping level
MULAW_BIAS == 132
MULAW_CLIP == 32635
\* sample rates of the telephone stream and of the speech synthesis
TWILIO_SAMPLE_RATE == 8000
OPENAI_TTS_SAMPLE_RATE == 24000

VARIABLES
    \* AudioBuffer
    max_bytes,        \* configured capacity in bytes (constructor argument)
    chunks,           \* buffered chunks, oldest first
    buffering,        \* is_buffering()
    \* ReconnectManager
    connected,        \* is_connected()
    reconnect_count,
    last_callback,    \* the callback invoked last: "none", "on_disconnect", "on_reconnect"
    sent,             \* every chunk handed to send_fn, in call order
    \* observation of the calls made so far
    next_id,          \* id of the next chunk passed to write
    written,          \* chunks passed to write while buffering, since the last drain
    drained,          \* return value of the last drain()
    drained_of,       \* value of `written` when drain() was last called
    last_op,          \* the operation executed last
    last_chunk,       \* the chunk passed to the last write
    \* DeepgramTranscriber
    socket,           \* _socket: "none" or "open" (set by connect, cleared by close)
    ctx_manager,      \* _ctx_manager is set
    recv_task,        \* _recv_task: "none", "running", "exited", "cancelled"
    \* the provider and the owner of the session
    provider,         \* the provider's end: "idle", "up", "dropped"
    captured,         \* number of chunks passed to send_audio so far
    provider_received,\* ids of the chunks the provider received, in order
    outage_captured,  \* ids of the chunks passed to send_audio during an outage
    events,           \* number of results delivered to on_transcript
    send_raised,      \* a send_audio call raised to its caller
    outage_seconds,   \* seconds since the provider dropped the connection
    closes,           \* close() calls since the last connect(), 2 for more
    releases,         \* connections released since the last connect()
    last_message,     \* kind of the last message the receive loop handled
    \* has_wake_word / extract_question applied to one text
    wake_text,        \* the argument
    wake_done,        \* the functions have been applied
    wake_detected,    \* has_wake_word(text)
    wake_question,    \* extract_question(text)
    wake_seed,        \* the collected segments a detection starts with
    \* ConversationHandler and the transcript file it polls
    transcript,       \* the lines of the transcript file
    last_line_count,  \* _last_line_count
    cursor,           \* index of the line the loop over new_lines is at
    loop_end,         \* index of the last line of new_lines
    processing,       \* _processing
    collecting,       \* _collecting
    collected_lines,  \* _collected_lines
    collect_speaker,  \* _collect_speaker
    quiet,            \* sleeps of the poll loop since _collect_start_time
    hpc,              \* where the poll task is
    in_flight,        \* _ask_claude calls that have not returned
    asked,            \* the questions passed to _ask_claude, in order
    spoken,           \* responses on_speak has played
    discards,         \* collected questions dropped as too short
    started,          \* indexes of the lines that started a collection
    busy_lines,       \* indexes of the lines written during a call or playback
    finalizers,       \* indexes of the lines that cut a collection short
    last_outcome,     \* how the last call or playback ended
    \* VoiceResponder and the media stream it plays into
    speaking,         \* _speaking
    ms_connected,     \* media_stream.is_connected
    tts_client,       \* _client is set
    spc,              \* where each speak() call is
    offset,           \* frames each _stream_audio has sent
    audio_frames,     \* frames of the audio of each speak() call
    wire,             \* the messages handed to the media stream, in order
    begun,            \* sends of frames each playback has started
    halted,           \* begun, as it was when stop() cut the playback short
    stops,            \* stop() calls made
    \* start_capture_stream: the mixer of speaker output and microphone
    mpc,              \* where the capture coroutine is
    has_mic,          \* mic_stream is not None
    stop_event,       \* stop_event.is_set()
    bh_queue,         \* bh_queue, the primary chunks waiting
    mic_queue,        \* mic_queue
    bh_delivered,     \* chunks the primary stream has delivered
    mic_delivered,    \* chunks the microphone stream has delivered
    emitted,          \* the calls of the output callback, in order
    speaker_volume,   \* SPEAKER_VOLUME, a fraction num / den
    mic_volume,       \* MIC_VOLUME
    last_mixed,       \* a sample of the chunk mixed last: its two inputs
                      \* and the sample passed on
    bh_stream,        \* bh_stream: "none", "started" or "closed"
    mic_stream,       \* mic_stream: "none" (no microphone), "started" or
                      \* "closed"
    exit_by,          \* how the coroutine left its loop: "none", "stop",
                      \* "callback" (it raised) or "cancel"
    \* VoiceResponder._stream_audio on one payload, byte by byte
    mulaw_audio,      \* the payload, a sequence of bytes
    stream_pc,        \* "idle" before the call, "streaming" in the loop
    stream_offset,    \* offset
    stream_frames,    \* the chunks passed to send_audio, in order
    \* one call of pcm16_to_mulaw or resample_to_8khz
    codec_pc,         \* "idle", "encoded" or "resampled"
    pcm_data,         \* the argument, a sequence of bytes
    source_rate,      \* the rate argument of resample_to_8khz, 0 if none
    codec_result,     \* the bytes returned
    codec_raised,     \* the call raised instead of returning
    \* MediaStreamServer
    ms_ws,            \* _ws: the connection it holds, or 0 for None
    ms_stream_sid,    \* _stream_sid
    ms_event_set,     \* _connected is set
    forwarded,        \* the calls of on_audio, each with the frame's track
    ms_messages,      \* messages received so far
    conn_state,       \* each connection: "waiting", "open" or "closed"
    conn_started,     \* the connection has received its start message
    last_write,       \* the last send_audio or clear_audio: the connection
                      \* written to (0 if none) and whether it was open
    \* run_plus_one from the connected call to its return
    main_pc,          \* where the main coroutine is
    conversation_task, \* "running", "speaking" (on_speak in it) or "cancelled"
    monitor_task,     \* "running" or "cancelled"
    spoken_task,      \* the on_speak task the monitor started: "none",
                      \* "speaking" or "done"
    frames_left,      \* chunks that task has still to send
    handler_task,     \* the media handler: "running" or "ended"
    receive_task,     \* the transcriber's receive loop: "running" or "cancelled"
    media_conn,       \* "open", "closing" (closed by the server, _ws still
                      \* set) or "closed" (_ws is None)
    deepgram_conn,    \* "open" or "closed"
    late_writes,      \* 1 once a task wrote to a connection already closed
    sent_audio,       \* frames the media handler passed to the transcriber
    \* one call of _dominant_speaker
    utterance,        \* the speaker field of each word of the utterance
    scored,           \* the call was made
    dominant,         \* its result
    \* /api/start and /api/stop on the shared app_state
    app_status,       \* app_state.state
    app_transcriber,  \* app_state.transcriber: a session, or 0 for None
    app_stop_event,   \* app_state.stop_event
    app_capture_task, \* app_state.capture_task
    transcribers,     \* each session's transcriber: "none", "connecting",
                      \* "connected", "interrupted" or "closed"
    capture_tasks,    \* each session's capture task: "none", "running",
                      \* "done" or "cancelled"
    task_event,       \* the stop event each capture task was given
    events_set,       \* each session's stop event is set
    start_pc,         \* where each start() request is
    stop_pc,          \* where the stop() request is
    stop_waits,       \* the capture task stop() awaits
    stop_closing,     \* the transcriber stop() is closing
    starts,           \* start() requests accepted so far
    \* TranscriptMonitor and the transcript file it polls
    file_lines,       \* lines in the transcript file
    mon_last_line_count, \* _last_line_count
    mon_last_file_size,  \* _last_file_size
    elapsed_polls,    \* polls since _last_analysis_time, up to the cooldown
    analyses          \* analyses started so far

relayVars == <<max_bytes, chunks, buffering, connected, reconnect_count,
               last_callback, sent, next_id, written, drained, drained_of,
               last_op, last_chunk>>

sessionVars == <<socket, ctx_manager, recv_task, provider, captured,
                 provider_received, outage_captured, events, send_raised,
                 outage_seconds, closes, releases, last_message>>

wakeVars == <<wake_text, wake_done, wake_detected, wake_question, wake_seed>>

arbiterVars == <<transcript, last_line_count, cursor, loop_end, processing,
                 collecting, collected_lines, collect_speaker, quiet, hpc,
                 in_flight, asked, spoken, discards, started, busy_lines,
                 finalizers, last_outcome>>

playbackVars == <<speaking, ms_connected, tts_client, spc, offset,
                  audio_frames, wire, begun, halted, stops>>

mixerVars == <<mpc, has_mic, stop_event, bh_queue, mic_queue, bh_delivered,
               mic_delivered, emitted, speaker_volume, mic_volume,
               last_mixed, bh_stream, mic_stream, exit_by>>

framingVars == <<mulaw_audio, stream_pc, stream_offset, stream_frames>>

codecVars == <<codec_pc, pcm_data, source_rate, codec_result, codec_raised>>

mediaVars == <<ms_ws, ms_stream_sid, ms_event_set, forwarded, ms_messages,
               conn_state, conn_started, last_write>>

shutdownVars ==
    <<main_pc, conversation_task, monitor_task, spoken_task, frames_left,
      handler_task, receive_task, media_conn, deepgram_conn, late_writes,
      sent_audio>>

diarizationVars == <<utterance, scored, dominant>>

serverVars == <<app_status, app_transcriber, app_stop_event, app_capture_task,
      transcribers, capture_tasks, task_event, events_set, start_pc, stop_pc,
      stop_waits, stop_closing, starts>>

monitorVars == <<file_lines, mon_last_line_count, mon_last_file_size, elapsed_polls,
      analyses>>

\* the components around the transcription session
pipelineVars ==
    <<wakeVars, arbiterVars, playbackVars, mixerVars, framingVars, codecVars,
      mediaVars, shutdownVars,
      diarizationVars,
      serverVars,
      monitorVars>>

vars == <<relayVars, sessionVars, pipelineVars>>

NoChunk == [id |-> 0, len |-> 0]

\* ------------------------------------------------------------ AudioBuffer

RECURSIVE SumLen(_)
\* size(): total number of buffered bytes
SumLen(s) == IF s = <<>> THEN 0 ELSE Head(s).len + SumLen(Tail(s))

RECURSIVE EvictOldest(_, _, _)
\* evict oldest whole chunks until a chunk of n bytes fits (or nothing is left)
EvictOldest(cs, n, cap) ==
    IF cs # <<>> /\ SumLen(cs) + n > cap
    THEN EvictOldest(Tail(cs), n, cap)
    ELSE cs

\* a write that keeps evicting but stores the chunk whether or not it fits
StoreUnchecked(cs, c, cap) == Append(EvictOldest(cs, c.len, cap), c)

\* a write that makes room by dropping the newest buffered chunks
StoreEvictNewest(cs, c, cap) ==
    LET RECURSIVE DropLast(_)
        DropLast(s) == IF s # <<>> /\ SumLen(s) + c.len > cap
                       THEN DropLast(SubSeq(s, 1, Len(s) - 1))
                       ELSE s
        kept == DropLast(cs)
    IN  IF SumLen(kept) + c.len <= cap THEN Append(kept, c) ELSE kept

\* write(chunk) in buffering mode: the chunk is stored whole after the oldest
\* chunks are evicted; total bytes never exceed the capacity and a chunk is
\* never truncated, so a chunk larger than the capacity is not stored.
Store(cs, c, cap) ==
    LET kept == EvictOldest(cs, c.len, cap)
    IN  IF SumLen(kept) + c.len <= cap THEN Append(kept, c) ELSE kept

\* write(chunk) in passthrough mode stores the chunk all the same
WriteAlwaysStores(cs, c, cap, on) == Store(cs, c, cap)

\* write(chunk): stored only in buffering mode, a no-op otherwise
WriteResult(cs, c, cap, on) == IF on THEN Store(cs, c, cap) ELSE cs

Write ==
    /\ next_id <= MaxWrites
    /\ \E n \in 1..MaxChunkLen :
         LET c == [id |-> next_id, len |-> n]
         IN  /\ chunks' = WriteResult(chunks, c, max_bytes, buffering)
             /\ written' = IF buffering THEN Append(written, c) ELSE written
             /\ last_chunk' = c
    /\ next_id' = next_id + 1
    /\ last_op' = IF buffering THEN "write_buffering" ELSE "write_passthrough"
    /\ UNCHANGED <<max_bytes, buffering, connected, reconnect_count,
                   last_callback, sent, drained, drained_of>>
    /\ UNCHANGED <<sessionVars, pipelineVars>>

\* a drain that hands the chunks back newest first
DrainReversed(cs) ==
    [i \in 1..Len(cs) |-> cs[Len(cs) + 1 - i]]

\* the list drain() returns: every buffered chunk, oldest first
DrainResult(cs) == cs

\* drain(): returns the buffered chunks oldest first and empties the buffer
Drain ==
    /\ drained' = DrainResult(chunks)
    /\ drained_of' = written
    /\ chunks' = <<>>
    /\ written' = <<>>
    /\ last_op' = "drain"
    /\ UNCHANGED <<max_bytes, buffering, connected, reconnect_count,
                   last_callback, sent, next_id, last_chunk>>
    /\ UNCHANGED <<sessionVars, pipelineVars>>

\* set_buffering(flag)
SetBuffering ==
    /\ \E flag \in BOOLEAN : buffering' = flag
    /\ last_op' = "set_buffering"
    /\ UNCHANGED <<max_bytes, chunks, connected, reconnect_count,
                   last_callback, sent, next_id, written, drained,
                   drained_of, last_chunk>>
    /\ UNCHANGED <<sessionVars, pipelineVars>>

\* ------------------------------------------------------- ReconnectManager

\* notify_disconnected() that starts the outage with a fresh buffer
DisconnectResets(cs) == <<>>

\* what notify_disconnected() leaves in the buffer: the content is untouched
DisconnectKeeps(cs) == cs

\* notify_disconnected(): state Disconnected, buffer switched to buffering,
\* on_disconnect invoked
NotifyDisconnected ==
    /\ connected' = FALSE
    /\ buffering' = TRUE
    /\ chunks' = DisconnectKeeps(chunks)
    /\ last_callback' = "on_disconnect"
    /\ last_op' = IF connected THEN "disconnected" ELSE "disconnected_again"
    /\ UNCHANGED <<max_bytes, reconnect_count, sent, next_id, written,
                   drained, drained_of, last_chunk>>
    /\ UNCHANGED <<sessionVars, pipelineVars>>

\* a counter bumped by every notify_reconnected() call
CountEveryCall(n, was_connected) == n + 1

\* reconnect_count after notify_reconnected(): one more per completed
\* Disconnected -> Connected cycle
CountCycle(n, was_connected) == IF was_connected THEN n ELSE n + 1

\* a replay that sends the newest chunk first
ReplayReversed(cs) ==
    [i \in 1..Len(cs) |-> cs[Len(cs) + 1 - i]]

\* the order in which the drained chunks go to send_fn: original order
Replay(cs) == cs

\* a reconnect that leaves the buffer in buffering mode
StaysBuffering(was_connected) == TRUE

\* buffering mode after notify_reconnected(): passthrough
BufferingAfterReconnect(was_connected) == FALSE

\* notify_reconnected(): state Connected, buffer back to passthrough, buffer
\* drained and replayed through send_fn, on_reconnect invoked, count updated
NotifyReconnected ==
    /\ reconnect_count < MaxReconnects \/ connected
    /\ connected' = TRUE
    /\ buffering' = BufferingAfterReconnect(connected)
    /\ drained' = DrainResult(chunks)
    /\ drained_of' = written
    /\ chunks' = <<>>
    /\ written' = <<>>
    /\ sent' = sent \o Replay(DrainResult(chunks))
    /\ reconnect_count' = CountCycle(reconnect_count, connected)
    /\ last_callback' = "on_reconnect"
    /\ last_op' = IF connected THEN "reconnected_again" ELSE "reconnected"
    /\ UNCHANGED <<max_bytes, next_id, last_chunk>>
    /\ UNCHANGED <<sessionVars, pipelineVars>>

\* ---------------------------------------------------- DeepgramTranscriber

\* connect(): opens the streaming connection and starts the receive task
\* (called by the owners on a session that holds no socket)
Connect ==
    /\ socket = "none"
    /\ socket' = "open"
    /\ ctx_manager' = TRUE
    /\ recv_task' = "running"
    /\ provider' = "up"
    /\ outage_seconds' = 0
    /\ UNCHANGED <<captured, provider_received, outage_captured, events,
                   send_raised>>
    /\ closes' = 0
    /\ releases' = 0
    /\ UNCHANGED last_message
    /\ UNCHANGED <<relayVars, pipelineVars>>

\* the provider (or the network) drops the connection
ProviderDrops ==
    /\ provider = "up"
    /\ provider' = "dropped"
    /\ UNCHANGED <<socket, ctx_manager, recv_task, captured,
                   provider_received, outage_captured, events, send_raised,
                   outage_seconds>>
    /\ UNCHANGED <<closes, releases, last_message>>
    /\ UNCHANGED <<relayVars, pipelineVars>>

\* the kinds of message recv() hands to _handle_result: a result with a
\* non-blank transcript; an event without a channel; a channel without
\* alternatives; a blank transcript; an alternative without a transcript (or
\* a result without start, duration or is_final); a result whose start or
\* duration is no number
MessageKinds == {"transcript", "no_channel", "no_alternatives", "blank",
                 "missing_field", "bad_timing"}

\* a result with a channel, an alternative and a non-blank transcript is
\* turned into one TranscriptionResult; anything else into none
ResultsOf(kind) == IF kind = "transcript" THEN 1 ELSE 0

\* a handler that catches every error of a message
CatchesAll(kind) == FALSE

\* _handle_result raises: it catches IndexError and AttributeError, so a
\* missing field is only printed, but result.start + result.duration on a
\* value that is no number raises TypeError
HandlerRaises(kind) == kind = "bad_timing"

\* a receive loop that goes on after its task has finished
ReceiveLoopResumes(task) == task \in {"running", "exited"}

\* _receive_loop iterates only while its task runs: every exit is a break out
\* of `while True`, and nothing starts the task again but connect()
ReceiveLoopRuns(task) == task = "running"

\* _receive_loop, one iteration: recv() returns a message, _handle_result
\* passes at most one result to on_transcript; an error it lets through is
\* printed by the loop, which then breaks
ReceiveMessage ==
    /\ ReceiveLoopRuns(recv_task)
    /\ socket = "open"
    /\ provider = "up"
    /\ events < MaxEvents
    /\ \E kind \in MessageKinds :
         /\ events' = events + ResultsOf(kind)
         /\ last_message' = kind
         /\ recv_task' = IF HandlerRaises(kind) THEN "exited" ELSE recv_task
    /\ UNCHANGED <<socket, ctx_manager, provider, captured,
                   provider_received, outage_captured, send_raised,
                   outage_seconds, closes, releases>>
    /\ UNCHANGED <<relayVars, pipelineVars>>

\* _receive_loop ends: recv() returned None or raised (a closed socket, or
\* any other error, which is printed); every branch breaks out of the loop.
\* The task finishes, _socket stays set, no callback runs and nothing is
\* raised to the owner.
ReceiveLoopEnds ==
    /\ recv_task = "running"
    /\ recv_task' = "exited"
    /\ UNCHANGED <<socket, ctx_manager, provider, captured,
                   provider_received, outage_captured, events, send_raised,
                   outage_seconds>>
    /\ UNCHANGED <<closes, releases, last_message>>
    /\ UNCHANGED <<relayVars, pipelineVars>>

\* send_audio(chunk): forwarded to the socket when one is set.  On a dropped
\* connection send_media either raises to the caller or discards the chunk
\* (the provider receives it in neither case); without a socket the call does
\* nothing.
SendAudio ==
    /\ captured < MaxChunks
    /\ captured' = captured + 1
    /\ outage_captured' = IF provider = "dropped"
                          THEN outage_captured \cup {captured + 1}
                          ELSE outage_captured
    /\ \/ /\ socket = "open" /\ provider = "up"
          /\ provider_received' = Append(provider_received, captured + 1)
          /\ UNCHANGED send_raised
       \/ /\ socket = "open" /\ provider = "dropped"
          /\ \E raises \in BOOLEAN : send_raised' = (send_raised \/ raises)
          /\ UNCHANGED provider_received
       \/ /\ socket = "none"
          /\ UNCHANGED <<provider_received, send_raised>>
    /\ UNCHANGED <<socket, ctx_manager, recv_task, provider, events,
                   outage_seconds>>
    /\ UNCHANGED <<closes, releases, last_message>>
    /\ UNCHANGED <<relayVars, pipelineVars>>

\* a close() that leaves the connection context whenever it is called
ReleasesAlways(ctx) == TRUE

\* close() leaves the connection context: only if self._ctx_manager is set
Releases(ctx) == ctx

\* close(): cancels and awaits the receive task, then leaves the connection
\* context and clears _ctx_manager and _socket
Close ==
    /\ recv_task' = IF recv_task = "running" THEN "cancelled" ELSE recv_task
    /\ ctx_manager' = FALSE
    /\ socket' = IF Releases(ctx_manager) THEN "none" ELSE socket
    /\ provider' = IF Releases(ctx_manager) THEN "idle" ELSE provider
    /\ outage_seconds' = IF Releases(ctx_manager) THEN 0 ELSE outage_seconds
    /\ closes' = IF closes < 2 THEN closes + 1 ELSE closes
    /\ releases' = IF Releases(ctx_manager) /\ releases < 2
                   THEN releases + 1 ELSE releases
    /\ UNCHANGED <<captured, provider_received, outage_captured, events,
                   send_raised, last_message>>
    /\ UNCHANGED <<relayVars, pipelineVars>>

\* one second passes while the provider connection is down (the receive
\* task is woken by the drop well within a second)
Tick ==
    /\ provider = "dropped"
    /\ recv_task # "running"
    /\ outage_seconds <= ReconnectDeadline
    /\ outage_seconds' = outage_seconds + 1
    /\ UNCHANGED <<socket, ctx_manager, recv_task, provider, captured,
                   provider_received, outage_captured, events, send_raised>>
    /\ UNCHANGED <<closes, releases, last_message>>
    /\ UNCHANGED <<relayVars, pipelineVars>>

\* ------------------------------------------- has_wake_word, extract_question

LowerLetters == {"a", "c", "d", "e", "h", "k", "l", "m", "n", "o", "p", "r",
                 "s", "t", "u", "w", "x", "y"}
UpperLetters == {"E", "L", "N", "O", "P", "S", "U"}
Digits == {"0", "1"}

\* re.IGNORECASE: letters are compared case-folded
ToLower(c) ==
    CASE c = "E" -> "e" [] c = "L" -> "l" [] c = "N" -> "n" [] c = "O" -> "o"
      [] c = "P" -> "p" [] c = "S" -> "s" [] c = "U" -> "u" [] OTHER -> c

\* a matcher that compares letters as they are
CaseSensitive(c) == c

\* the folding the compiled pattern applies to a character of the text
Fold(c) == ToLower(c)

IsWordChar(c) == c \in LowerLetters \cup UpperLetters \cup Digits
IsSpace(c) == c = " "

\* there is a word character at position p of t
WordAt(t, p) == p >= 1 /\ p <= Len(t) /\ IsWordChar(t[p])

\* \b between positions p - 1 and p
Boundary(t, p) == WordAt(t, p - 1) # WordAt(t, p)

\* the literal lit (lower case) stands at position p of t
LitAt(t, p, lit) ==
    /\ p >= 1
    /\ p + Len(lit) - 1 <= Len(t)
    /\ \A k \in 1..Len(lit) : Fold(t[p + k - 1]) = lit[k]

RECURSIVE SkipSpaces(_, _)
\* \s*: the position after the run of whitespace that starts at p
SkipSpaces(t, p) ==
    IF p <= Len(t) /\ IsSpace(t[p]) THEN SkipSpaces(t, p + 1) ELSE p

\* plus\s*one\b at p: the position after the match, 0 when there is none
PlusOneFrom(t, p) ==
    IF LitAt(t, p, <<"p", "l", "u", "s">>)
    THEN LET q == SkipSpaces(t, p + 4)
         IN  IF LitAt(t, q, <<"o", "n", "e">>) /\ Boundary(t, q + 3)
             THEN q + 3 ELSE 0
    ELSE 0

\* WAKE_PATTERNS[0]: \bplus\s*one\b
MatchPlusOne(t, p) == IF Boundary(t, p) THEN PlusOneFrom(t, p) ELSE 0

\* WAKE_PATTERNS[1]: \+\s*1\b
MatchPlus1(t, p) ==
    IF LitAt(t, p, <<"+">>)
    THEN LET q == SkipSpaces(t, p + 1)
         IN  IF LitAt(t, q, <<"1">>) /\ Boundary(t, q + 1) THEN q + 1 ELSE 0
    ELSE 0

\* WAKE_PATTERNS[2]: \bhey\s+plus\s*one\b
MatchHey(t, p) ==
    IF /\ Boundary(t, p)
       /\ LitAt(t, p, <<"h", "e", "y">>)
       /\ p + 3 <= Len(t)
       /\ IsSpace(t[p + 3])
    THEN PlusOneFrom(t, SkipSpaces(t, p + 3))
    ELSE 0

\* the alternation at p: the first alternative that matches wins
MatchAt(t, p) ==
    IF MatchPlusOne(t, p) # 0 THEN MatchPlusOne(t, p)
    ELSE IF MatchPlus1(t, p) # 0 THEN MatchPlus1(t, p)
    ELSE MatchHey(t, p)

\* _WAKE_RE.search(text): the leftmost match, [start, end), or none (start 0)
Search(t) ==
    LET hits == {p \in 1..Len(t) : MatchAt(t, p) # 0}
    IN  IF hits = {} THEN [start |-> 0, end |-> 0]
        ELSE LET p == CHOOSE q \in hits : \A r \in hits : q <= r
             IN  [start |-> p, end |-> MatchAt(t, p)]

\* has_wake_word(text)
HasWakeWord(t) == Search(t).start # 0

RECURSIVE LStrip(_, _)
\* t without its leading characters that are in the set drop
LStrip(t, drop) ==
    IF t # <<>> /\ Head(t) \in drop THEN LStrip(Tail(t), drop) ELSE t

RECURSIVE RStrip(_, _)
RStrip(t, drop) ==
    IF t # <<>> /\ t[Len(t)] \in drop
    THEN RStrip(SubSeq(t, 1, Len(t) - 1), drop)
    ELSE t

\* str.strip()
Strip(t) == RStrip(LStrip(t, {" "}), {" "})

\* extract_question(text): what follows the match, stripped, then without
\* leading commas and whitespace; the whole text when nothing is left or
\* nothing matched
ExtractQuestion(t) ==
    LET m == Search(t)
        after == LStrip(Strip(SubSeq(t, m.end, Len(t))), {",", " "})
    IN  IF m.start = 0 THEN t
        ELSE IF after # <<>> THEN after ELSE t

\* _check_transcript on a detection: [question_part] if question_part else []
SeedSegments(t) ==
    IF ExtractQuestion(t) # <<>> THEN <<ExtractQuestion(t)>> ELSE <<>>

\* the words and signs the texts are made of
Tokens == {<<"p", "l", "u", "s">>, <<"P", "L", "U", "S">>, <<"o", "n", "e">>,
           <<"h", "e", "y">>, <<"+">>, <<"1">>, <<" ">>, <<",">>, <<"x">>}

RECURSIVE Flatten(_)
Flatten(ts) == IF ts = <<>> THEN <<>> ELSE Head(ts) \o Flatten(Tail(ts))

\* every text of at most MaxTokens tokens
Texts == {Flatten(ts) : ts \in UNION {[1..n -> Tokens] : n \in 0..MaxTokens}}

\* no text has been handed to the functions yet
InitWake ==
    /\ wake_text = <<>>
    /\ wake_done = FALSE
    /\ wake_detected = FALSE
    /\ wake_question = <<>>
    /\ wake_seed = <<>>

\* a caller picks the text of a transcript line
GiveText ==
    /\ ~wake_done
    /\ wake_text = <<>>
    /\ wake_text' \in Texts \ {<<>>}
    /\ UNCHANGED <<wake_done, wake_detected, wake_question, wake_seed>>
    /\ UNCHANGED <<relayVars, sessionVars, arbiterVars, playbackVars,
                   mixerVars, framingVars, codecVars, mediaVars,
                   shutdownVars, diarizationVars, serverVars, monitorVars>>

\* the text goes through has_wake_word and, on a detection, through
\* extract_question as in _check_transcript
ApplyWake ==
    /\ ~wake_done
    /\ wake_done' = TRUE
    /\ wake_detected' = HasWakeWord(wake_text)
    /\ wake_question' = ExtractQuestion(wake_text)
    /\ wake_seed' = IF HasWakeWord(wake_text) THEN SeedSegments(wake_text) ELSE <<>>
    /\ UNCHANGED wake_text
    /\ UNCHANGED <<relayVars, sessionVars, arbiterVars, playbackVars,
                   mixerVars, framingVars, codecVars, mediaVars,
                   shutdownVars, diarizationVars, serverVars, monitorVars>>

\* ------------------------------------------------------- ConversationHandler

StatusText == <<"h", "e", "y", " ", "p", "l", "u", "s", " ", "o", "n", "e", ",", " ", "w", "h", "a", "t", "'", "s", " ", "o", "u", "r", " ", "s", "t", "a", "t", "u", "s", "?">>
WhatsOurStatus == <<"w", "h", "a", "t", "'", "s", " ", "o", "u", "r", " ", "s", "t", "a", "t", "u", "s", "?">>
MoreText == <<"a", "n", "d", " ", "m", "o", "r", "e">>
BareText == <<"p", "l", "u", "s", " ", "o", "n", "e">>
OkText == <<"+", "1", " ", "o", "k">>
\* the timestamp file_writer puts in front of every line
Stamp == <<"[", "0", "0", ":", "0", "0", ":", "0", "0", "]", " ">>

\* the lines the transcript writer appends: "[HH:MM:SS] Speaker N: body", or
\* "[HH:MM:SS] body" when the speaker is not known
Lines == {[speaker |-> "0", body |-> StatusText],
          [speaker |-> "0", body |-> MoreText],
          [speaker |-> "None", body |-> MoreText],
          [speaker |-> "1", body |-> BareText],
          [speaker |-> "0", body |-> OkText]}

\* the text _check_transcript takes from a line: the body after "Speaker N:",
\* the whole line when the line names no speaker
TextOf(line) ==
    IF line.speaker = "None" THEN Stamp \o line.body ELSE line.body

RECURSIVE JoinReversed(_)
\* a join that puts the latest segment first
JoinReversed(ls) ==
    IF ls = <<>> THEN <<>>
    ELSE IF Len(ls) = 1 THEN Head(ls)
    ELSE JoinReversed(Tail(ls)) \o <<" ">> \o Head(ls)

RECURSIVE Join(_)
\* " ".join(segments)
Join(ls) ==
    IF ls = <<>> THEN <<>>
    ELSE IF Len(ls) = 1 THEN Head(ls)
    ELSE Head(ls) \o <<" ">> \o Join(Tail(ls))

\* " ".join(self._collected_lines).strip()
Question(ls) == Strip(Join(ls))

\* a handler that asks whatever was collected
NeverTooShort(q) == FALSE

\* not question or len(question) < 3
TooShort(q) == Len(q) < MinQuestionLen

\* a handler that never gives up waiting for more lines
NeverTimesOut(q) == FALSE

\* time.time() - self._collect_start_time > 1.5 at the q-th wake-up since the
\* start time was set: each sleep lasts at least 0.5 s and the reads between
\* the sleeps take time
TimedOut(q) == q >= QuietPeriodTicks

\* a detached call: the loop goes on and nothing marks the handler as busy
DispatchDetached(next) == [hpc |-> next, processing |-> FALSE]

\* await self._ask_claude(...) inside _process_collected inside the loop: the
\* poll task waits at the call with _processing set
Dispatch(next) == [hpc |-> "asking", processing |-> TRUE]

\* a handler without the finally clause
FlagKeptOnRaise(outcome) == outcome \in {"raises", "speak_failed"}

\* _processing after the try statement: finally resets it on every path
FlagAfterCall(outcome) == FALSE

\* a loop that gives up after the first of the new lines
ResumeAfterFirst(c) == "sleeping"

\* where the poll task goes on when the loop is about to look at line c
Resume(c) == IF c > loop_end THEN "sleeping" ELSE "looping"

\* a handler that keeps the lines of the question it has taken
KeepCollected(ls) == ls

\* self._collected_lines = []
ResetCollected(ls) == <<>>

\* _process_collected up to the call of _ask_claude; next is where the poll
\* task goes on when the question is dropped
ProcessCollected(next) ==
    LET question == Question(collected_lines)
    IN  /\ collecting' = FALSE
        /\ collected_lines' = ResetCollected(collected_lines)
        /\ IF TooShort(question)
           THEN /\ discards' = discards + 1
                /\ hpc' = next
                /\ UNCHANGED <<processing, in_flight, asked>>
           ELSE /\ processing' = Dispatch(next).processing
                /\ hpc' = Dispatch(next).hpc
                /\ in_flight' = in_flight + 1
                /\ asked' = Append(asked, question)
                /\ UNCHANGED discards

\* ConversationHandler(...) after construction, start() about to sleep
InitArbiter ==
    /\ transcript = <<>>
    /\ last_line_count = 0
    /\ cursor = 1
    /\ loop_end = 0
    /\ processing = FALSE
    /\ collecting = FALSE
    /\ collected_lines = <<>>
    /\ collect_speaker = "None"
    /\ quiet = 0
    /\ hpc = "sleeping"
    /\ in_flight = 0
    /\ asked = <<>>
    /\ spoken = 0
    /\ discards = 0
    /\ started = {}
    /\ busy_lines = {}
    /\ finalizers = {}
    /\ last_outcome = "none"

\* the transcript writer appends a line to the file; the loop over new_lines
\* works on the lines read before it and runs without yielding to the writer
AppendLine ==
    /\ Len(transcript) < MaxLines
    /\ hpc # "looping"
    /\ \E line \in Lines : transcript' = Append(transcript, line)
    /\ busy_lines' = IF hpc \in {"asking", "speaking"}
                     THEN busy_lines \cup {Len(transcript) + 1}
                     ELSE busy_lines
    /\ UNCHANGED <<last_line_count, cursor, loop_end, processing, collecting,
                   collected_lines, collect_speaker, quiet, hpc, in_flight,
                   asked, spoken, discards, started, finalizers, last_outcome>>
    /\ UNCHANGED <<relayVars, sessionVars, wakeVars, playbackVars, mixerVars,
                   framingVars, codecVars, mediaVars, shutdownVars,
                   diarizationVars, serverVars, monitorVars>>

\* start(): asyncio.sleep(0.5), then _check_transcript up to its loop over
\* the new lines
Poll ==
    /\ hpc = "sleeping"
    /\ IF Len(transcript) <= last_line_count
       THEN IF collecting /\ TimedOut(quiet + 1)
            THEN /\ ProcessCollected("sleeping")
                 /\ quiet' = 0
                 /\ UNCHANGED <<last_line_count, cursor, loop_end>>
            ELSE /\ quiet' = IF collecting THEN quiet + 1 ELSE quiet
                 /\ UNCHANGED <<last_line_count, cursor, loop_end, processing,
                                collecting, collected_lines, hpc, in_flight,
                                asked, discards>>
       ELSE /\ cursor' = last_line_count + 1
            /\ loop_end' = Len(transcript)
            /\ last_line_count' = Len(transcript)
            /\ hpc' = "looping"
            /\ quiet' = IF collecting THEN quiet + 1 ELSE quiet
            /\ UNCHANGED <<processing, collecting, collected_lines, in_flight,
                           asked, discards>>
    /\ UNCHANGED <<transcript, collect_speaker, spoken, started, busy_lines,
                   finalizers, last_outcome>>
    /\ UNCHANGED <<relayVars, sessionVars, wakeVars, playbackVars, mixerVars,
                   framingVars, codecVars, mediaVars, shutdownVars,
                   diarizationVars, serverVars, monitorVars>>

\* one pass of the loop over new_lines in _check_transcript
LoopStep ==
    /\ hpc = "looping"
    /\ LET line == transcript[cursor]
           text == TextOf(line)
           next == Resume(cursor + 1)
       IN  IF processing
           THEN /\ hpc' = next
                /\ UNCHANGED <<processing, collecting, collected_lines,
                               collect_speaker, quiet, in_flight, asked,
                               discards, started, finalizers>>
           ELSE IF collecting
           THEN IF line.speaker = collect_speaker \/ line.speaker = "None"
                THEN /\ collected_lines' = Append(collected_lines, text)
                     /\ quiet' = 0
                     /\ hpc' = next
                     /\ UNCHANGED <<processing, collecting, collect_speaker,
                                    in_flight, asked, discards, started,
                                    finalizers>>
                ELSE /\ ProcessCollected(next)
                     /\ finalizers' = finalizers \cup {cursor}
                     /\ quiet' = 0
                     /\ UNCHANGED <<collect_speaker, started>>
           ELSE IF HasWakeWord(text)
           THEN /\ collecting' = TRUE
                /\ collect_speaker' = line.speaker
                /\ collected_lines' = SeedSegments(text)
                /\ quiet' = 0
                /\ started' = started \cup {cursor}
                /\ hpc' = next
                /\ UNCHANGED <<processing, in_flight, asked, discards,
                               finalizers>>
           ELSE /\ hpc' = next
                /\ UNCHANGED <<processing, collecting, collected_lines,
                               collect_speaker, quiet, in_flight, asked,
                               discards, started, finalizers>>
    /\ cursor' = cursor + 1
    /\ UNCHANGED <<transcript, last_line_count, loop_end, spoken, busy_lines,
                   last_outcome>>
    /\ UNCHANGED <<relayVars, sessionVars, wakeVars, playbackVars, mixerVars,
                   framingVars, codecVars, mediaVars, shutdownVars,
                   diarizationVars, serverVars, monitorVars>>

\* _ask_claude returns a response, returns None (API error) or raises
ClaudeReturns ==
    /\ hpc = "asking"
    /\ \E outcome \in {"text", "none", "raises"} :
        /\ last_outcome' = outcome
        /\ IF outcome = "text"
           THEN /\ hpc' = "speaking"
                /\ UNCHANGED processing
           ELSE /\ hpc' = Resume(cursor)
                /\ processing' = FlagAfterCall(outcome)
    /\ in_flight' = in_flight - 1
    /\ UNCHANGED <<transcript, last_line_count, cursor, loop_end, collecting,
                   collected_lines, collect_speaker, quiet, asked, spoken,
                   discards, started, busy_lines, finalizers>>
    /\ UNCHANGED <<relayVars, sessionVars, wakeVars, playbackVars, mixerVars,
                   framingVars, codecVars, mediaVars, shutdownVars,
                   diarizationVars, serverVars, monitorVars>>

\* on_speak returns or raises
SpeakReturns ==
    /\ hpc = "speaking"
    /\ \E outcome \in {"spoken", "speak_failed"} :
        /\ last_outcome' = outcome
        /\ spoken' = IF outcome = "spoken" THEN spoken + 1 ELSE spoken
        /\ processing' = FlagAfterCall(outcome)
    /\ hpc' = Resume(cursor)
    /\ UNCHANGED <<transcript, last_line_count, cursor, loop_end, collecting,
                   collected_lines, collect_speaker, quiet, in_flight, asked,
                   discards, started, busy_lines, finalizers>>
    /\ UNCHANGED <<relayVars, sessionVars, wakeVars, playbackVars, mixerVars,
                   framingVars, codecVars, mediaVars, shutdownVars,
                   diarizationVars, serverVars, monitorVars>>

\* ------------------------------------------------------------ VoiceResponder

\* the speak() calls: the conversation handler and the transcript monitor
\* both play their responses through the same responder
Speakers == 1..MaxSpeaks

\* halted[t] when no stop() has cut playback t short
NotHalted == -1

\* a speak() without its finally clause
FlagLeftAtExit(flag) == flag

\* finally: self._speaking = False
FlagAtExit(flag) == FALSE

\* VoiceResponder(media_stream) after construction, the call connected
InitPlayback ==
    /\ speaking = FALSE
    /\ ms_connected = TRUE
    /\ tts_client = TRUE
    /\ spc = [t \in Speakers |-> "idle"]
    /\ offset = [t \in Speakers |-> 0]
    /\ audio_frames = [t \in Speakers |-> 0]
    /\ wire = <<>>
    /\ begun = [t \in Speakers |-> 0]
    /\ halted = [t \in Speakers |-> NotHalted]
    /\ stops = 0

\* the top of the loop of _stream_audio in call t, flag being the value of
\* _speaking it reads: the next frame is handed to send_audio, or the loop
\* ends and speak() leaves through its finally clause
FrameOrFinish(t, flag, len, off) ==
    IF off < len /\ flag
    THEN /\ spc' = [spc EXCEPT ![t] = "sending"]
         /\ begun' = [begun EXCEPT ![t] = @ + 1]
         /\ wire' = IF ms_connected
                    THEN Append(wire, [event |-> "media", call |-> t, frame |-> off + 1])
                    ELSE wire
         /\ speaking' = flag
    ELSE /\ spc' = [spc EXCEPT ![t] = "done"]
         /\ speaking' = FlagAtExit(flag)
         /\ UNCHANGED <<begun, wire>>

\* the responder was built with no OPENAI_API_KEY: _client stays None
BuiltWithoutKey ==
    /\ tts_client
    /\ ms_connected
    /\ stops = 0
    /\ \A t \in Speakers : spc[t] = "idle"
    /\ tts_client' = FALSE
    /\ UNCHANGED <<speaking, ms_connected, spc, offset, audio_frames, wire,
                   begun, halted, stops>>
    /\ UNCHANGED <<relayVars, sessionVars, wakeVars, arbiterVars, mixerVars,
                   framingVars, codecVars, mediaVars, shutdownVars,
                   diarizationVars, serverVars, monitorVars>>

\* speak(text) up to the TTS request, or its return when the stream is not
\* connected or there is no client
Speak(t) ==
    /\ spc[t] = "idle"
    /\ IF ms_connected /\ tts_client
       THEN /\ speaking' = TRUE
            /\ spc' = [spc EXCEPT ![t] = "tts"]
       ELSE /\ spc' = [spc EXCEPT ![t] = "done"]
            /\ UNCHANGED speaking
    /\ UNCHANGED <<ms_connected, tts_client, offset, audio_frames, wire, begun, halted,
                   stops>>
    /\ UNCHANGED <<relayVars, sessionVars, wakeVars, arbiterVars, mixerVars,
                   framingVars, codecVars, mediaVars, shutdownVars,
                   diarizationVars, serverVars, monitorVars>>

\* _generate_speech returns the audio, which is resampled and encoded, and
\* _stream_audio runs up to its first send; or it returns None
TtsReturns(t) ==
    /\ spc[t] = "tts"
    /\ \/ \E n \in 1..MaxFrames :
            /\ audio_frames' = [audio_frames EXCEPT ![t] = n]
            /\ FrameOrFinish(t, speaking, n, 0)
       \/ /\ spc' = [spc EXCEPT ![t] = "done"]
          /\ speaking' = FlagAtExit(speaking)
          /\ UNCHANGED <<audio_frames, begun, wire>>
    /\ UNCHANGED <<ms_connected, tts_client, offset, halted, stops>>
    /\ UNCHANGED <<relayVars, sessionVars, wakeVars, arbiterVars, mixerVars,
                   framingVars, codecVars, mediaVars, shutdownVars,
                   diarizationVars, serverVars, monitorVars>>

\* send_audio returns and the loop starts its 20 ms sleep, or send_audio raises
SendReturns(t) ==
    /\ spc[t] = "sending"
    /\ \/ /\ offset' = [offset EXCEPT ![t] = @ + 1]
          /\ spc' = [spc EXCEPT ![t] = "pacing"]
          /\ UNCHANGED speaking
       \/ /\ spc' = [spc EXCEPT ![t] = "done"]
          /\ speaking' = FlagAtExit(speaking)
          /\ UNCHANGED offset
    /\ UNCHANGED <<ms_connected, tts_client, audio_frames, wire, begun,
                   halted, stops>>
    /\ UNCHANGED <<relayVars, sessionVars, wakeVars, arbiterVars, mixerVars,
                   framingVars, codecVars, mediaVars, shutdownVars,
                   diarizationVars, serverVars, monitorVars>>

\* the sleep ends and the loop condition is evaluated again
SleepEnds(t) ==
    /\ spc[t] = "pacing"
    /\ FrameOrFinish(t, speaking, audio_frames[t], offset[t])
    /\ UNCHANGED <<ms_connected, tts_client, offset, audio_frames, halted,
                   stops>>
    /\ UNCHANGED <<relayVars, sessionVars, wakeVars, arbiterVars, mixerVars,
                   framingVars, codecVars, mediaVars, shutdownVars,
                   diarizationVars, serverVars, monitorVars>>

\* stop(): the flag is cleared and a connected stream is told to clear
Stop ==
    /\ stops < MaxStops
    /\ stops' = stops + 1
    /\ speaking' = FALSE
    /\ wire' = IF ms_connected THEN Append(wire, [event |-> "clear", call |-> 0, frame |-> 0])
               ELSE wire
    /\ halted' = [t \in Speakers |->
                    IF spc[t] \in {"sending", "pacing"} THEN begun[t]
                    ELSE halted[t]]
    /\ UNCHANGED <<ms_connected, tts_client, spc, offset, audio_frames, begun>>
    /\ UNCHANGED <<relayVars, sessionVars, wakeVars, arbiterVars, mixerVars,
                   framingVars, codecVars, mediaVars, shutdownVars,
                   diarizationVars, serverVars, monitorVars>>

\* the media stream of the call closes
StreamCloses ==
    /\ ms_connected
    /\ ms_connected' = FALSE
    /\ UNCHANGED <<speaking, tts_client, spc, offset, audio_frames, wire,
                   begun, halted, stops>>
    /\ UNCHANGED <<relayVars, sessionVars, wakeVars, arbiterVars, mixerVars,
                   framingVars, codecVars, mediaVars, shutdownVars,
                   diarizationVars, serverVars, monitorVars>>

\* ------------------------------------------------------ start_capture_stream

\* mic_data when the microphone queue was empty
NoMic == 0

\* a mixer that keeps only the latest primary chunk, as it does for the mic
TakeLatest(q) == [data |-> q[Len(q)], rest |-> <<>>]

\* bh_queue.get(): the oldest primary chunk
TakeOldest(q) == [data |-> Head(q), rest |-> Tail(q)]

\* a mixer that mixes the microphone chunks one by one, oldest first
OldestMic(q) == IF q = <<>> THEN NoMic ELSE Head(q)

\* the drain of mic_queue: the latest microphone chunk, if any
LatestMic(q) == IF q = <<>> THEN NoMic ELSE q[Len(q)]

\* the top of the while loop: the coroutine waits for the next primary chunk
\* unless the stop event is set
LoopTop(stop) == IF stop THEN "stopped" ELSE "waiting"

\* the default of SPEAKER_VOLUME and MIC_VOLUME, 1.0
UnitGain == [num |-> 1, den |-> 1]

\* the volumes the environment may set: one, and forty thousand
Gains == {UnitGain, [num |-> 40000, den |-> 1]}

\* the samples of a chunk: the two ends of the 16-bit range
Samples == {-32768, 32767}

\* one sample of the mixed chunk. A sample times a volume is a float, which
\* astype(np.int32) cuts toward zero; the two scaled samples are added as
\* 32-bit integers, the sum wrapping modulo 2^32; np.clip and
\* astype(np.int16) follow
MixSample(bh, with_mic, mic, sv, mv) ==
    LET scale(x, g) == IF x >= 0 THEN (x * g.num) \div g.den
                       ELSE -(((-x) * g.num) \div g.den)
        add32(x, y) ==
            IF x > 0 /\ y > 0 /\ x > 2147483647 - y
            THEN (x - 2147483647 - 1) + (y - 2147483647 - 1)
            ELSE IF x < 0 /\ y < 0 /\ x < (-2147483647 - 1) - y
            THEN (x + 2147483647 + 1) + (y + 2147483647 + 1)
            ELSE x + y
        clip(x) == IF x > 32767 THEN 32767
                   ELSE IF x < -32768 THEN -32768 ELSE x
    IN  IF with_mic THEN clip(add32(scale(bh, sv), scale(mic, mv)))
        ELSE clip(scale(bh, sv))

\* a finally clause that leaves the stream as it is
LeftOpen(stream) == stream

\* the finally clause: stop() and close() on a stream that was created
StopAndClose(stream) == IF stream = "none" THEN stream ELSE "closed"

\* the capture coroutine has not been started
InitMixer ==
    /\ mpc = "init"
    /\ has_mic = FALSE
    /\ stop_event = FALSE
    /\ bh_queue = <<>>
    /\ mic_queue = <<>>
    /\ bh_delivered = 0
    /\ mic_delivered = 0
    /\ emitted = <<>>
    /\ speaker_volume = UnitGain
    /\ mic_volume = UnitGain
    /\ last_mixed = [bh |-> 0, with_mic |-> FALSE, mic |-> 0, out |-> 0]
    /\ bh_stream = "none"
    /\ mic_stream = "none"
    /\ exit_by = "none"

\* start_capture_stream up to the loop: the devices are looked up and the
\* streams started; without a BlackHole device it raises
StartCapture ==
    /\ mpc = "init"
    /\ \/ /\ mpc' = "failed"
          /\ UNCHANGED <<has_mic, speaker_volume, mic_volume, bh_stream,
                         mic_stream, exit_by>>
       \/ /\ mpc' = LoopTop(stop_event)
          /\ has_mic' \in BOOLEAN
          /\ speaker_volume' \in Gains
          /\ mic_volume' \in Gains
          /\ bh_stream' = IF mpc' = "stopped" THEN StopAndClose("started")
                          ELSE "started"
          /\ mic_stream' = IF ~has_mic' THEN "none"
                           ELSE IF mpc' = "stopped"
                           THEN StopAndClose("started") ELSE "started"
          /\ exit_by' = IF mpc' = "stopped" THEN "stop" ELSE "none"
    /\ UNCHANGED <<stop_event, bh_queue, mic_queue, bh_delivered,
                   mic_delivered, emitted, last_mixed>>
    /\ UNCHANGED <<relayVars, sessionVars, wakeVars, arbiterVars,
                   playbackVars, framingVars, codecVars, mediaVars,
                   shutdownVars, diarizationVars, serverVars, monitorVars>>

\* bh_callback: the primary stream delivers a chunk while it is running
BhDeliver ==
    /\ mpc \in {"waiting", "calling"}
    /\ bh_delivered < MaxPrimary
    /\ bh_delivered' = bh_delivered + 1
    /\ bh_queue' = Append(bh_queue, bh_delivered + 1)
    /\ UNCHANGED <<mpc, has_mic, stop_event, mic_queue, mic_delivered,
                   emitted, speaker_volume, mic_volume, last_mixed>>
    /\ UNCHANGED <<bh_stream, mic_stream, exit_by>>
    /\ UNCHANGED <<relayVars, sessionVars, wakeVars, arbiterVars,
                   playbackVars, framingVars, codecVars, mediaVars,
                   shutdownVars, diarizationVars, serverVars, monitorVars>>

\* mic_callback: the microphone stream delivers a chunk
MicDeliver ==
    /\ mpc \in {"waiting", "calling"}
    /\ has_mic
    /\ mic_delivered < MaxMic
    /\ mic_delivered' = mic_delivered + 1
    /\ mic_queue' = Append(mic_queue, mic_delivered + 1)
    /\ UNCHANGED <<mpc, has_mic, stop_event, bh_queue, bh_delivered, emitted,
                   speaker_volume, mic_volume, last_mixed>>
    /\ UNCHANGED <<bh_stream, mic_stream, exit_by>>
    /\ UNCHANGED <<relayVars, sessionVars, wakeVars, arbiterVars,
                   playbackVars, framingVars, codecVars, mediaVars,
                   shutdownVars, diarizationVars, serverVars, monitorVars>>

\* bh_queue.get() returns: the microphone queue is drained, the chunks are
\* mixed and the output callback is called
Mix ==
    /\ mpc = "waiting"
    /\ bh_queue # <<>>
    /\ bh_queue' = TakeOldest(bh_queue).rest
    /\ mic_queue' = IF has_mic THEN <<>> ELSE mic_queue
    /\ emitted' = Append(emitted,
                         [bh |-> TakeOldest(bh_queue).data,
                          mic |-> IF has_mic THEN LatestMic(mic_queue) ELSE NoMic])
    /\ \E b \in Samples, m \in Samples :
        LET with_mic == has_mic /\ mic_queue # <<>>
        IN  last_mixed' =
                [bh |-> b, with_mic |-> with_mic,
                 mic |-> IF with_mic THEN m ELSE 0,
                 out |-> MixSample(b, with_mic, m, speaker_volume, mic_volume)]
    /\ mpc' = "calling"
    /\ UNCHANGED <<has_mic, stop_event, bh_delivered, mic_delivered,
                   speaker_volume, mic_volume>>
    /\ UNCHANGED <<bh_stream, mic_stream, exit_by>>
    /\ UNCHANGED <<relayVars, sessionVars, wakeVars, arbiterVars,
                   playbackVars, framingVars, codecVars, mediaVars,
                   shutdownVars, diarizationVars, serverVars, monitorVars>>

\* no primary chunk for 0.5 s: the loop goes round
WaitTimesOut ==
    /\ mpc = "waiting"
    /\ bh_queue = <<>>
    /\ mpc' = LoopTop(stop_event)
    /\ bh_stream' = IF mpc' = "stopped" THEN StopAndClose(bh_stream)
                    ELSE bh_stream
    /\ mic_stream' = IF mpc' = "stopped" THEN StopAndClose(mic_stream)
                     ELSE mic_stream
    /\ exit_by' = IF mpc' = "stopped" THEN "stop" ELSE "none"
    /\ UNCHANGED <<has_mic, stop_event, bh_queue, mic_queue, bh_delivered,
                   mic_delivered, emitted, speaker_volume, mic_volume,
                   last_mixed>>
    /\ UNCHANGED <<relayVars, sessionVars, wakeVars, arbiterVars,
                   playbackVars, framingVars, codecVars, mediaVars,
                   shutdownVars, diarizationVars, serverVars, monitorVars>>

\* the output callback returns, or raises and ends the capture
CallbackReturns ==
    /\ mpc = "calling"
    /\ \E raised \in BOOLEAN :
         /\ mpc' = IF raised THEN "stopped" ELSE LoopTop(stop_event)
         /\ exit_by' = IF raised THEN "callback"
                       ELSE IF mpc' = "stopped" THEN "stop" ELSE "none"
    /\ bh_stream' = IF mpc' = "stopped" THEN StopAndClose(bh_stream)
                    ELSE bh_stream
    /\ mic_stream' = IF mpc' = "stopped" THEN StopAndClose(mic_stream)
                     ELSE mic_stream
    /\ UNCHANGED <<has_mic, stop_event, bh_queue, mic_queue, bh_delivered,
                   mic_delivered, emitted, speaker_volume, mic_volume,
                   last_mixed>>
    /\ UNCHANGED <<relayVars, sessionVars, wakeVars, arbiterVars,
                   playbackVars, framingVars, codecVars, mediaVars,
                   shutdownVars, diarizationVars, serverVars, monitorVars>>

\* the owner sets the stop event
SetStop ==
    /\ ~stop_event
    /\ stop_event' = TRUE
    /\ UNCHANGED <<mpc, has_mic, bh_queue, mic_queue, bh_delivered,
                   mic_delivered, emitted, speaker_volume, mic_volume,
                   last_mixed>>
    /\ UNCHANGED <<bh_stream, mic_stream, exit_by>>
    /\ UNCHANGED <<relayVars, sessionVars, wakeVars, arbiterVars,
                   playbackVars, framingVars, codecVars, mediaVars,
                   shutdownVars, diarizationVars, serverVars, monitorVars>>

\* the owner cancels the task while it waits for a chunk or for the output
\* callback: CancelledError leaves the loop through the finally clause
CancelCapture ==
    /\ mpc \in {"waiting", "calling"}
    /\ mpc' = "stopped"
    /\ exit_by' = "cancel"
    /\ bh_stream' = StopAndClose(bh_stream)
    /\ mic_stream' = StopAndClose(mic_stream)
    /\ UNCHANGED <<has_mic, stop_event, bh_queue, mic_queue, bh_delivered,
                   mic_delivered, emitted, speaker_volume, mic_volume,
                   last_mixed>>
    /\ UNCHANGED <<relayVars, sessionVars, wakeVars, arbiterVars,
                   playbackVars, framingVars, codecVars, mediaVars,
                   shutdownVars, diarizationVars, serverVars, monitorVars>>

\* -------------------------------------------- VoiceResponder._stream_audio

\* a loop that sends whole frames only
ChunkWholeOnly(audio, off) ==
    IF off + TWILIO_CHUNK_SIZE <= Len(audio)
    THEN SubSeq(audio, off + 1, off + TWILIO_CHUNK_SIZE)
    ELSE <<>>

\* mulaw_audio[offset:offset + TWILIO_CHUNK_SIZE]
ChunkAt(audio, off) ==
    SubSeq(audio, off + 1,
           IF off + TWILIO_CHUNK_SIZE <= Len(audio)
           THEN off + TWILIO_CHUNK_SIZE ELSE Len(audio))

\* a payload of n bytes that differ from their neighbours
PayloadOf(n) == [i \in 1..n |-> i % 256]

\* no payload has been handed to _stream_audio
InitFraming ==
    /\ mulaw_audio = <<>>
    /\ stream_pc = "idle"
    /\ stream_offset = 0
    /\ stream_frames = <<>>

\* _stream_audio(mulaw_audio) is called with _speaking set
StreamAudio ==
    /\ stream_pc = "idle"
    /\ \E n \in 0..MaxPayload : mulaw_audio' = PayloadOf(n)
    /\ stream_pc' = "streaming"
    /\ UNCHANGED <<stream_offset, stream_frames>>
    /\ UNCHANGED <<relayVars, sessionVars, wakeVars, arbiterVars, playbackVars,
                   mixerVars, codecVars, mediaVars, shutdownVars,
                   diarizationVars, serverVars, monitorVars>>

\* one pass of the loop: the next chunk goes to send_audio, the offset moves
\* on and the loop sleeps 20 ms
SendChunk ==
    /\ stream_pc = "streaming"
    /\ stream_offset < Len(mulaw_audio)
    /\ stream_frames' = Append(stream_frames, ChunkAt(mulaw_audio, stream_offset))
    /\ stream_offset' = stream_offset + TWILIO_CHUNK_SIZE
    /\ UNCHANGED <<mulaw_audio, stream_pc>>
    /\ UNCHANGED <<relayVars, sessionVars, wakeVars, arbiterVars, playbackVars,
                   mixerVars, codecVars, mediaVars, shutdownVars,
                   diarizationVars, serverVars, monitorVars>>

\* ------------------------------------ pcm16_to_mulaw and resample_to_8khz

MULAW_TABLE ==
    <<0, 0, 1, 1, 2, 2, 2, 2, 3, 3, 3, 3, 3, 3, 3, 3,
      4, 4, 4, 4, 4, 4, 4, 4, 4, 4, 4, 4, 4, 4, 4, 4,
      5, 5, 5, 5, 5, 5, 5, 5, 5, 5, 5, 5, 5, 5, 5, 5,
      5, 5, 5, 5, 5, 5, 5, 5, 5, 5, 5, 5, 5, 5, 5, 5,
      6, 6, 6, 6, 6, 6, 6, 6, 6, 6, 6, 6, 6, 6, 6, 6,
      6, 6, 6, 6, 6, 6, 6, 6, 6, 6, 6, 6, 6, 6, 6, 6,
      6, 6, 6, 6, 6, 6, 6, 6, 6, 6, 6, 6, 6, 6, 6, 6,
      6, 6, 6, 6, 6, 6, 6, 6, 6, 6, 6, 6, 6, 6, 6, 6,
      7, 7, 7, 7, 7, 7, 7, 7, 7, 7, 7, 7, 7, 7, 7, 7,
      7, 7, 7, 7, 7, 7, 7, 7, 7, 7, 7, 7, 7, 7, 7, 7,
      7, 7, 7, 7, 7, 7, 7, 7, 7, 7, 7, 7, 7, 7, 7, 7,
      7, 7, 7, 7, 7, 7, 7, 7, 7, 7, 7, 7, 7, 7, 7, 7,
      7, 7, 7, 7, 7, 7, 7, 7, 7, 7, 7, 7, 7, 7, 7, 7,
      7, 7, 7, 7, 7, 7, 7, 7, 7, 7, 7, 7, 7, 7, 7, 7,
      7, 7, 7, 7, 7, 7, 7, 7, 7, 7, 7, 7, 7, 7, 7, 7,
      7, 7, 7, 7, 7, 7, 7, 7, 7, 7, 7, 7, 7, 7, 7, 7>>

\* an encoder that leaves the bits as they are
KeepBits(v) == v

\* ~v & 0xFF for a byte v
Complement(v) == 255 - v

\* the mulaw byte of one 16-bit sample: sign bit, three bits of exponent and
\* four of mantissa, complemented
encode_mulaw_sample(sample) ==
    LET sign == IF sample < 0 THEN 128 ELSE 0
        mag == IF sample < 0 THEN -sample ELSE sample
        clipped == IF mag > MULAW_CLIP THEN MULAW_CLIP ELSE mag
        biased == clipped + MULAW_BIAS
        exponent == MULAW_TABLE[((biased \div 128) % 256) + 1]
        mantissa == (biased \div (2 ^ (exponent + 3))) % 16
    IN  Complement(sign + exponent * 16 + mantissa)

\* one little-endian signed 16-bit sample from its two bytes
ToInt16(lo, hi) ==
    LET u == lo + 256 * hi IN IF u >= 32768 THEN u - 65536 ELSE u

\* struct.unpack("<Nh") with N = len // 2 raises unless the data has 2N bytes
UnpackRaises(pcm) == Len(pcm) % 2 = 1

UnpackSamples(pcm) ==
    [i \in 1..(Len(pcm) \div 2) |-> ToInt16(pcm[2 * i - 1], pcm[2 * i])]

\* struct.pack("<Nh"): two bytes per sample, low byte first
PackSamples(out) ==
    [j \in 1..(2 * Len(out)) |->
        LET v == out[(j + 1) \div 2]
            u == IF v < 0 THEN v + 65536 ELSE v
        IN  IF j % 2 = 1 THEN u % 256 ELSE u \div 256]

pcm16_to_mulaw(pcm) ==
    IF UnpackRaises(pcm)
    THEN [raised |-> TRUE, data |-> <<>>]
    ELSE [raised |-> FALSE,
          data |-> [i \in 1..(Len(pcm) \div 2) |->
                       encode_mulaw_sample(UnpackSamples(pcm)[i])]]

\* int() of the quotient a / b, b > 0: rounds toward zero
IntOf(a, b) == IF a >= 0 THEN a \div b ELSE -((-a) \div b)

\* a resampler that rounds the count up
OutCountCeil(num_samples, rate) ==
    (num_samples * TWILIO_SAMPLE_RATE + rate - 1) \div rate

\* int(num_samples / ratio) with ratio = rate / TWILIO_SAMPLE_RATE
OutCount(num_samples, rate) == (num_samples * TWILIO_SAMPLE_RATE) \div rate

\* the i-th output sample, i from 0: the linear interpolation of the two
\* input samples around position i * ratio, cut to an integer and clamped
Interpolate(samples, i, rate) ==
    LET num_samples == Len(samples)
        idx == (i * rate) \div TWILIO_SAMPLE_RATE
        rem == (i * rate) % TWILIO_SAMPLE_RATE
        val == IF idx + 1 < num_samples
               THEN IntOf(samples[idx + 1] * (TWILIO_SAMPLE_RATE - rem)
                              + samples[idx + 2] * rem,
                          TWILIO_SAMPLE_RATE)
               ELSE samples[idx + 1]
        low == IF val > 32767 THEN 32767 ELSE val
    IN  IF low < -32768 THEN -32768 ELSE low

resample_to_8khz(pcm, rate) ==
    IF rate = TWILIO_SAMPLE_RATE
    THEN [raised |-> FALSE, data |-> pcm]
    ELSE IF UnpackRaises(pcm)
    THEN [raised |-> TRUE, data |-> <<>>]
    ELSE LET samples == UnpackSamples(pcm)
             out_count == OutCount(Len(samples), rate)
         IN  [raised |-> FALSE,
              data |-> PackSamples([k \in 1..out_count |->
                                       Interpolate(samples, k - 1, rate)])]

\* the samples the signals are made of: silence, a loud positive sample and
\* an odd negative one
SampleChoices == {0, 32000, -32767}

\* the signals handed in: whole samples, and the same with a stray last byte
Signals ==
    LET whole == {PackSamples(ss) :
                    ss \in UNION {[1..n -> SampleChoices] : n \in 0..MaxSamples}}
    IN  whole \cup {Append(pcm, 0) : pcm \in whole}

\* the source rates: the stream's own, the synthesis rate and two between,
\* all with a ratio that binary floating point holds exactly
SourceRates == {TWILIO_SAMPLE_RATE, 12000, 16000, OPENAI_TTS_SAMPLE_RATE}

\* no call made
InitCodec ==
    /\ codec_pc = "idle"
    /\ pcm_data = <<>>
    /\ source_rate = 0
    /\ codec_result = <<>>
    /\ codec_raised = FALSE

\* pcm16_to_mulaw(pcm_data)
Pcm16ToMulaw ==
    /\ codec_pc = "idle"
    /\ \E pcm \in Signals :
        /\ pcm_data' = pcm
        /\ codec_result' = pcm16_to_mulaw(pcm).data
        /\ codec_raised' = pcm16_to_mulaw(pcm).raised
    /\ codec_pc' = "encoded"
    /\ UNCHANGED source_rate
    /\ UNCHANGED <<relayVars, sessionVars, wakeVars, arbiterVars, playbackVars,
                   mixerVars, framingVars, mediaVars, shutdownVars,
                   diarizationVars, serverVars, monitorVars>>

\* resample_to_8khz(pcm_data, source_rate)
ResampleTo8khz ==
    /\ codec_pc = "idle"
    /\ \E pcm \in Signals, rate \in SourceRates :
        /\ pcm_data' = pcm
        /\ source_rate' = rate
        /\ codec_result' = resample_to_8khz(pcm, rate).data
        /\ codec_raised' = resample_to_8khz(pcm, rate).raised
    /\ codec_pc' = "resampled"
    /\ UNCHANGED <<relayVars, sessionVars, wakeVars, arbiterVars, playbackVars,
                   mixerVars, framingVars, mediaVars, shutdownVars,
                   diarizationVars, serverVars, monitorVars>>

\* ---------------------------------------------------------- MediaStreamServer

\* the connections the server accepts, each served by its own _handler; they
\* arrive in this order and may be open together
Connections == 1..MaxConnections

\* the track tag of a media message; "absent" when the message carries none
Tracks == {"inbound", "outbound", "absent"}

\* the payload field of a media message: empty, or the base64 text of two
\* zero bytes
Payloads == {"", "AAA="}

\* base64.b64decode(payload)
B64Decode(payload) == IF payload = "AAA=" THEN <<0, 0>> ELSE <<>>

\* a handler that forwards both tracks
ForwardsEveryTrack(track) == TRUE

\* media.get("track", "inbound") is not "outbound"
ForwardsTrack(track) ==
    LET tagged == IF track = "absent" THEN "inbound" ELSE track
    IN  tagged # "outbound"

\* is_connected: _ws is not None and _connected is set
IsConnected == ms_ws # 0 /\ ms_event_set

\* no connection yet; _ws is None, written 0
InitMedia ==
    /\ ms_ws = 0
    /\ ms_stream_sid = "none"
    /\ ms_event_set = FALSE
    /\ forwarded = <<>>
    /\ ms_messages = 0
    /\ conn_state = [c \in Connections |-> "waiting"]
    /\ conn_started = [c \in Connections |-> FALSE]
    /\ last_write = [kind |-> "none", to |-> 0, open |-> FALSE]

\* the transport opens connection c: its _handler starts and takes _ws
HandlerStarts(c) ==
    /\ conn_state[c] = "waiting"
    /\ \A b \in Connections : b < c => conn_state[b] # "waiting"
    /\ conn_state' = [conn_state EXCEPT ![c] = "open"]
    /\ ms_ws' = c
    /\ UNCHANGED <<ms_stream_sid, ms_event_set, forwarded, ms_messages,
                   conn_started, last_write>>
    /\ UNCHANGED <<relayVars, sessionVars, wakeVars, arbiterVars, playbackVars,
                   mixerVars, framingVars, codecVars, shutdownVars,
                   diarizationVars, serverVars, monitorVars>>

\* a "connected" message, a message of an unknown event or one that is not
\* JSON: nothing changes
OnIgnored(c) ==
    /\ conn_state[c] = "open"
    /\ ms_messages < MaxMessages
    /\ ms_messages' = ms_messages + 1
    /\ UNCHANGED <<ms_ws, ms_stream_sid, ms_event_set, forwarded, conn_state,
                   conn_started, last_write>>
    /\ UNCHANGED <<relayVars, sessionVars, wakeVars, arbiterVars, playbackVars,
                   mixerVars, framingVars, codecVars, shutdownVars,
                   diarizationVars, serverVars, monitorVars>>

\* a "start" message: the stream id is kept and the connected event set
OnStart(c) ==
    /\ conn_state[c] = "open"
    /\ ms_messages < MaxMessages
    /\ ms_messages' = ms_messages + 1
    /\ ms_stream_sid' = "MZ1"
    /\ ms_event_set' = TRUE
    /\ conn_started' = [conn_started EXCEPT ![c] = TRUE]
    /\ UNCHANGED <<ms_ws, forwarded, conn_state, last_write>>
    /\ UNCHANGED <<relayVars, sessionVars, wakeVars, arbiterVars, playbackVars,
                   mixerVars, framingVars, codecVars, shutdownVars,
                   diarizationVars, serverVars, monitorVars>>

\* a "media" message: unless it is of the outbound track or empty, its
\* decoded payload goes to on_audio
OnMedia(c) ==
    /\ conn_state[c] = "open"
    /\ ms_messages < MaxMessages
    /\ ms_messages' = ms_messages + 1
    /\ \E track \in Tracks, payload \in Payloads :
        forwarded' =
            IF ForwardsTrack(track) /\ payload # ""
            THEN Append(forwarded,
                        [track |-> track, audio |-> B64Decode(payload)])
            ELSE forwarded
    /\ UNCHANGED <<ms_ws, ms_stream_sid, ms_event_set, conn_state,
                   conn_started, last_write>>
    /\ UNCHANGED <<relayVars, sessionVars, wakeVars, arbiterVars, playbackVars,
                   mixerVars, framingVars, codecVars, shutdownVars,
                   diarizationVars, serverVars, monitorVars>>

\* a "stop" message ends the loop of connection c; the finally clause sets
\* _ws to None and clears the event, whichever connection _ws holds
OnStop(c) ==
    /\ conn_state[c] = "open"
    /\ ms_messages < MaxMessages
    /\ ms_messages' = ms_messages + 1
    /\ conn_state' = [conn_state EXCEPT ![c] = "closed"]
    /\ ms_ws' = 0
    /\ ms_event_set' = FALSE
    /\ UNCHANGED <<ms_stream_sid, forwarded, conn_started, last_write>>
    /\ UNCHANGED <<relayVars, sessionVars, wakeVars, arbiterVars, playbackVars,
                   mixerVars, framingVars, codecVars, shutdownVars,
                   diarizationVars, serverVars, monitorVars>>

\* connection c closes under the loop: ConnectionClosed, then the finally
\* clause
ConnectionCloses(c) ==
    /\ conn_state[c] = "open"
    /\ conn_state' = [conn_state EXCEPT ![c] = "closed"]
    /\ ms_ws' = 0
    /\ ms_event_set' = FALSE
    /\ UNCHANGED <<ms_stream_sid, forwarded, ms_messages, conn_started,
                   last_write>>
    /\ UNCHANGED <<relayVars, sessionVars, wakeVars, arbiterVars, playbackVars,
                   mixerVars, framingVars, codecVars, shutdownVars,
                   diarizationVars, serverVars, monitorVars>>

\* send_audio or clear_audio: nothing when _ws or _stream_sid is None, else
\* the message is written to the connection _ws holds
SendOrClear ==
    /\ \E kind \in {"media", "clear"} :
        last_write' =
            IF ms_ws = 0 \/ ms_stream_sid = "none"
            THEN [kind |-> kind, to |-> 0, open |-> FALSE]
            ELSE [kind |-> kind, to |-> ms_ws,
                  open |-> conn_state[ms_ws] = "open"]
    /\ UNCHANGED <<ms_ws, ms_stream_sid, ms_event_set, forwarded, ms_messages,
                   conn_state, conn_started>>
    /\ UNCHANGED <<relayVars, sessionVars, wakeVars, arbiterVars, playbackVars,
                   mixerVars, framingVars, codecVars, shutdownVars,
                   diarizationVars, serverVars, monitorVars>>

\* ------------------------------------------------ run_plus_one: the shutdown

\* the call is connected, the conversation and monitor tasks are started, the
\* media handler and the receive loop run, and the main loop waits for a stop
InitShutdown ==
    /\ main_pc = "running"
    /\ conversation_task = "running"
    /\ monitor_task = "running"
    /\ spoken_task = "none"
    /\ frames_left = 0
    /\ handler_task = "running"
    /\ receive_task = "running"
    /\ media_conn = "open"
    /\ deepgram_conn = "open"
    /\ late_writes = 0
    /\ sent_audio = 0

\* the conversation handler answers a question: on_speak runs inside
\* conversation_task until it returns
ConversationSpeaks ==
    /\ main_pc = "running"
    /\ conversation_task \in {"running", "speaking"}
    /\ conversation_task' =
        IF conversation_task = "running" THEN "speaking" ELSE "running"
    /\ UNCHANGED <<main_pc, monitor_task, spoken_task, frames_left,
                   handler_task, receive_task, media_conn, deepgram_conn,
                   late_writes, sent_audio>>
    /\ UNCHANGED <<relayVars, sessionVars, wakeVars, arbiterVars, playbackVars,
                   mixerVars, framingVars, codecVars, mediaVars,
                   diarizationVars, serverVars, monitorVars>>

\* the monitor finds a CONFLICT or RELATED item: _process_response starts
\* on_speak as a task of its own and keeps no reference to it; it may do so
\* until it is cancelled itself
MonitorSpeaks ==
    /\ main_pc \in {"running", "await_conversation"}
    /\ monitor_task = "running"
    /\ spoken_task \in {"none", "done"}
    /\ spoken_task' = "speaking"
    /\ \E n \in 1..MaxFrames : frames_left' = n
    /\ UNCHANGED <<main_pc, conversation_task, monitor_task, handler_task,
                   receive_task, media_conn, deepgram_conn, late_writes, sent_audio>>
    /\ UNCHANGED <<relayVars, sessionVars, wakeVars, arbiterVars, playbackVars,
                   mixerVars, framingVars, codecVars, mediaVars,
                   diarizationVars, serverVars, monitorVars>>

\* the started playback sends its next chunk: send_audio returns at once when
\* _ws is None, and writes to the connection otherwise; on a connection the
\* server has closed the write raises and speak() ends
SpokenTaskSends ==
    /\ spoken_task = "speaking"
    /\ frames_left > 0
    /\ IF media_conn = "closing"
       THEN /\ late_writes' = 1
            /\ frames_left' = 0
       ELSE /\ frames_left' = frames_left - 1
            /\ UNCHANGED late_writes
    /\ UNCHANGED <<main_pc, conversation_task, monitor_task, spoken_task,
                   handler_task, receive_task, media_conn, deepgram_conn, sent_audio>>
    /\ UNCHANGED <<relayVars, sessionVars, wakeVars, arbiterVars, playbackVars,
                   mixerVars, framingVars, codecVars, mediaVars,
                   diarizationVars, serverVars, monitorVars>>

\* the started playback has no chunk left and returns
SpokenTaskEnds ==
    /\ spoken_task = "speaking"
    /\ frames_left = 0
    /\ spoken_task' = "done"
    /\ UNCHANGED <<main_pc, conversation_task, monitor_task, frames_left,
                   handler_task, receive_task, media_conn, deepgram_conn,
                   late_writes, sent_audio>>
    /\ UNCHANGED <<relayVars, sessionVars, wakeVars, arbiterVars, playbackVars,
                   mixerVars, framingVars, codecVars, mediaVars,
                   diarizationVars, serverVars, monitorVars>>

\* the media handler takes a frame of the call and on_audio sends it to the
\* transcription socket
HandlerForwards ==
    /\ handler_task = "running"
    /\ media_conn = "open"
    /\ sent_audio < MaxFrames
    /\ sent_audio' = sent_audio + 1
    /\ late_writes' = IF deepgram_conn = "open" THEN late_writes ELSE 1
    /\ UNCHANGED <<main_pc, conversation_task, monitor_task, spoken_task,
                   frames_left, handler_task, receive_task, media_conn,
                   deepgram_conn>>
    /\ UNCHANGED <<relayVars, sessionVars, wakeVars, arbiterVars, playbackVars,
                   mixerVars, framingVars, codecVars, mediaVars,
                   diarizationVars, serverVars, monitorVars>>

\* the stop signal: conversation.stop(), conversation_task.cancel(), and the
\* main coroutine awaits the task
StopSignal ==
    /\ main_pc = "running"
    /\ main_pc' = "await_conversation"
    /\ UNCHANGED <<conversation_task, monitor_task, spoken_task, frames_left,
                   handler_task, receive_task, media_conn, deepgram_conn,
                   late_writes, sent_audio>>
    /\ UNCHANGED <<relayVars, sessionVars, wakeVars, arbiterVars, playbackVars,
                   mixerVars, framingVars, codecVars, mediaVars,
                   diarizationVars, serverVars, monitorVars>>

\* the cancelled conversation task ends, an answer in flight with it
ConversationEnds ==
    /\ main_pc = "await_conversation"
    /\ conversation_task # "cancelled"
    /\ conversation_task' = "cancelled"
    /\ UNCHANGED <<main_pc, monitor_task, spoken_task, frames_left,
                   handler_task, receive_task, media_conn, deepgram_conn,
                   late_writes, sent_audio>>
    /\ UNCHANGED <<relayVars, sessionVars, wakeVars, arbiterVars, playbackVars,
                   mixerVars, framingVars, codecVars, mediaVars,
                   diarizationVars, serverVars, monitorVars>>

\* monitor.stop(), monitor_task.cancel(), and the main coroutine awaits it
CancelMonitor ==
    /\ main_pc = "await_conversation"
    /\ conversation_task = "cancelled"
    /\ main_pc' = "await_monitor"
    /\ UNCHANGED <<conversation_task, monitor_task, spoken_task, frames_left,
                   handler_task, receive_task, media_conn, deepgram_conn,
                   late_writes, sent_audio>>
    /\ UNCHANGED <<relayVars, sessionVars, wakeVars, arbiterVars, playbackVars,
                   mixerVars, framingVars, codecVars, mediaVars,
                   diarizationVars, serverVars, monitorVars>>

\* the cancelled monitor task ends
MonitorEnds ==
    /\ main_pc = "await_monitor"
    /\ monitor_task # "cancelled"
    /\ monitor_task' = "cancelled"
    /\ UNCHANGED <<main_pc, conversation_task, spoken_task, frames_left,
                   handler_task, receive_task, media_conn, deepgram_conn,
                   late_writes, sent_audio>>
    /\ UNCHANGED <<relayVars, sessionVars, wakeVars, arbiterVars, playbackVars,
                   mixerVars, framingVars, codecVars, mediaVars,
                   diarizationVars, serverVars, monitorVars>>

\* _cleanup: the call is ended and media_server.close() closes the server,
\* whose connections close, and waits for it
CloseMediaServer ==
    /\ main_pc = "await_monitor"
    /\ monitor_task = "cancelled"
    /\ main_pc' = "closing_media"
    /\ media_conn' = "closing"
    /\ UNCHANGED <<conversation_task, monitor_task, spoken_task, frames_left,
                   handler_task, receive_task, deepgram_conn, late_writes, sent_audio>>
    /\ UNCHANGED <<relayVars, sessionVars, wakeVars, arbiterVars, playbackVars,
                   mixerVars, framingVars, codecVars, mediaVars,
                   diarizationVars, serverVars, monitorVars>>

\* the media handler sees its connection closed; its finally clause sets
\* _ws to None
HandlerEnds ==
    /\ media_conn = "closing"
    /\ handler_task = "running"
    /\ handler_task' = "ended"
    /\ media_conn' = "closed"
    /\ UNCHANGED <<main_pc, conversation_task, monitor_task, spoken_task,
                   frames_left, receive_task, deepgram_conn, late_writes, sent_audio>>
    /\ UNCHANGED <<relayVars, sessionVars, wakeVars, arbiterVars, playbackVars,
                   mixerVars, framingVars, codecVars, mediaVars,
                   diarizationVars, serverVars, monitorVars>>

\* wait_closed() returns; transcriber.close() cancels the receive task and
\* awaits it
CloseTranscriber ==
    /\ main_pc = "closing_media"
    /\ handler_task = "ended"
    /\ main_pc' = "closing_transcriber"
    /\ UNCHANGED <<conversation_task, monitor_task, spoken_task, frames_left,
                   handler_task, receive_task, media_conn, deepgram_conn,
                   late_writes, sent_audio>>
    /\ UNCHANGED <<relayVars, sessionVars, wakeVars, arbiterVars, playbackVars,
                   mixerVars, framingVars, codecVars, mediaVars,
                   diarizationVars, serverVars, monitorVars>>

\* the cancelled receive task ends
ReceiveTaskEnds ==
    /\ main_pc = "closing_transcriber"
    /\ receive_task = "running"
    /\ receive_task' = "cancelled"
    /\ UNCHANGED <<main_pc, conversation_task, monitor_task, spoken_task,
                   frames_left, handler_task, media_conn, deepgram_conn,
                   late_writes, sent_audio>>
    /\ UNCHANGED <<relayVars, sessionVars, wakeVars, arbiterVars, playbackVars,
                   mixerVars, framingVars, codecVars, mediaVars,
                   diarizationVars, serverVars, monitorVars>>

\* transcriber.close() leaves the connection context; the writer is closed
\* and run_plus_one returns
ReleaseSocket ==
    /\ main_pc = "closing_transcriber"
    /\ receive_task = "cancelled"
    /\ deepgram_conn' = "closed"
    /\ main_pc' = "done"
    /\ UNCHANGED <<conversation_task, monitor_task, spoken_task, frames_left,
                   handler_task, receive_task, media_conn, late_writes, sent_audio>>
    /\ UNCHANGED <<relayVars, sessionVars, wakeVars, arbiterVars, playbackVars,
                   mixerVars, framingVars, codecVars, mediaVars,
                   diarizationVars, serverVars, monitorVars>>

\* ---------------------------------------------------------- _dominant_speaker

\* the speaker field of a word: a label, None, or no such attribute
WordLabels == {"s0", "s1", "s2"}
WordKinds == WordLabels \cup {"None", "missing"}

\* a vote that keeps the later of two labels of equal count
RECURSIVE MostCommonLast(_, _, _)
MostCommonLast(speakers, i, best) ==
    LET count(l) == Cardinality({k \in 1..Len(speakers) : speakers[k] = l})
    IN  IF i > Len(speakers) THEN best
        ELSE MostCommonLast(speakers, i + 1,
                 IF count(speakers[i]) >= count(best) THEN speakers[i]
                 ELSE best)

\* Counter(speakers).most_common(1)[0][0]: the counter holds the labels in
\* the order they were first seen, and the maximum taken over them is the
\* first label whose count no later one exceeds
RECURSIVE MostCommon(_, _, _)
MostCommon(speakers, i, best) ==
    LET count(l) == Cardinality({k \in 1..Len(speakers) : speakers[k] = l})
    IN  IF i > Len(speakers) THEN best
        ELSE MostCommon(speakers, i + 1,
                 IF count(speakers[i]) > count(best) THEN speakers[i]
                 ELSE best)

dominant_speaker(words) ==
    LET speakers == SelectSeq(words, LAMBDA w : w \in WordLabels)
    IN  IF speakers = <<>> THEN "None"
        ELSE MostCommon(speakers, 2, speakers[1])

\* no utterance scored yet
InitDiarization ==
    /\ utterance = <<>>
    /\ scored = FALSE
    /\ dominant = "None"

\* _handle_result takes the words of an alternative and asks for their
\* speaker
ScoreWords ==
    /\ ~scored
    /\ \E n \in 0..MaxWords : \E ws \in [1..n -> WordKinds] :
        /\ utterance' = ws
        /\ dominant' = dominant_speaker(ws)
    /\ scored' = TRUE
    /\ UNCHANGED <<relayVars, sessionVars, wakeVars, arbiterVars, playbackVars,
                   mixerVars, framingVars, codecVars, mediaVars, shutdownVars,
                   serverVars, monitorVars>>

\* ------------------------------------------- server: /api/start, /api/stop

\* the sessions /api/start can create; session k owns the k-th stop event,
\* transcriber and capture task
Sessions == 1..MaxSessions

\* /api/start answers 409 only while a recording runs
StartRejected(state) == state = "recording"

\* /api/stop answers 409 unless a recording runs
StopRejected(state) == state # "recording"

\* transcribers that hold or are opening a connection
LiveTranscribers ==
    {k \in Sessions : transcribers[k] \in {"connecting", "connected"}}

\* capture tasks that are running
LiveCaptureTasks == {k \in Sessions : capture_tasks[k] = "running"}

InitServer ==
    /\ app_status = "idle"
    /\ app_transcriber = 0
    /\ app_stop_event = 0
    /\ app_capture_task = 0
    /\ transcribers = [k \in Sessions |-> "none"]
    /\ capture_tasks = [k \in Sessions |-> "none"]
    /\ task_event = [k \in Sessions |-> 0]
    /\ events_set = [k \in Sessions |-> FALSE]
    /\ start_pc = [k \in Sessions |-> "none"]
    /\ stop_pc = "idle"
    /\ stop_waits = 0
    /\ stop_closing = 0
    /\ starts = 0

\* start(), up to its await: unless rejected, the state becomes "recording",
\* a new stop event and a new transcriber replace the ones app_state holds
\* (capture_task is left as it is) and connect() is awaited
Start ==
    /\ starts < MaxSessions
    /\ ~StartRejected(app_status)
    /\ LET k == starts + 1
       IN  /\ starts' = k
           /\ app_status' = "recording"
           /\ app_stop_event' = k
           /\ app_transcriber' = k
           /\ transcribers' = [transcribers EXCEPT ![k] = "connecting"]
           /\ start_pc' = [start_pc EXCEPT ![k] = "connecting"]
    /\ UNCHANGED <<app_capture_task, capture_tasks, task_event, events_set,
                   stop_pc, stop_waits, stop_closing>>
    /\ UNCHANGED <<relayVars, sessionVars, wakeVars, arbiterVars, playbackVars,
                   mixerVars, framingVars, codecVars, mediaVars, shutdownVars,
                   diarizationVars, monitorVars>>

\* start(), after connect() returned: the capture task is created with the
\* stop event app_state holds at that moment and stored in app_state.  A
\* transcriber that close() was called on while it was connecting ends up
\* connected or closed.
StartConnected(k) ==
    /\ start_pc[k] = "connecting"
    /\ start_pc' = [start_pc EXCEPT ![k] = "done"]
    /\ \E outcome \in {"connected", "closed"} :
         /\ transcribers[k] = "connecting" => outcome = "connected"
         /\ transcribers' = [transcribers EXCEPT ![k] = outcome]
    /\ capture_tasks' = [capture_tasks EXCEPT ![k] = "running"]
    /\ task_event' = [task_event EXCEPT ![k] = app_stop_event]
    /\ app_capture_task' = k
    /\ UNCHANGED <<app_status, app_transcriber, app_stop_event, events_set,
                   stop_pc, stop_waits, stop_closing, starts>>
    /\ UNCHANGED <<relayVars, sessionVars, wakeVars, arbiterVars, playbackVars,
                   mixerVars, framingVars, codecVars, mediaVars, shutdownVars,
                   diarizationVars, monitorVars>>

\* start_capture_stream returns once its stop event is set (a task created
\* with no event fails at once)
CaptureEnds(k) ==
    /\ capture_tasks[k] = "running"
    /\ IF task_event[k] = 0 THEN TRUE ELSE events_set[task_event[k]]
    /\ capture_tasks' = [capture_tasks EXCEPT ![k] = "done"]
    /\ UNCHANGED <<app_status, app_transcriber, app_stop_event,
                   app_capture_task, transcribers, task_event, events_set,
                   start_pc, stop_pc, stop_waits, stop_closing, starts>>
    /\ UNCHANGED <<relayVars, sessionVars, wakeVars, arbiterVars, playbackVars,
                   mixerVars, framingVars, codecVars, mediaVars, shutdownVars,
                   diarizationVars, monitorVars>>

\* close() is called on the transcriber app_state holds
CloseCalled(ts, k) ==
    IF k = 0 THEN ts
    ELSE [ts EXCEPT ![k] = IF ts[k] = "connected" THEN "closed"
                           ELSE IF ts[k] = "connecting" THEN "interrupted"
                           ELSE ts[k]]

\* stop(), up to its first await: unless rejected, the request body is read
StopArrives ==
    /\ stop_pc = "idle"
    /\ ~StopRejected(app_status)
    /\ stop_pc' = "body"
    /\ UNCHANGED <<app_status, app_transcriber, app_stop_event,
                   app_capture_task, transcribers, capture_tasks, task_event,
                   events_set, start_pc, stop_waits, stop_closing, starts>>
    /\ UNCHANGED <<relayVars, sessionVars, wakeVars, arbiterVars, playbackVars,
                   mixerVars, framingVars, codecVars, mediaVars, shutdownVars,
                   diarizationVars, monitorVars>>

\* stop(), once the body is read: the state becomes "processing", the stop
\* event is set and the capture task awaited for up to 5 s; without a capture
\* task close() is called right away
StopBegins ==
    /\ stop_pc = "body"
    /\ app_status' = "processing"
    /\ events_set' = IF app_stop_event # 0
                     THEN [events_set EXCEPT ![app_stop_event] = TRUE]
                     ELSE events_set
    /\ IF app_capture_task # 0
       THEN /\ stop_pc' = "wait"
            /\ stop_waits' = app_capture_task
            /\ UNCHANGED <<transcribers, stop_closing>>
       ELSE /\ stop_pc' = "closing"
            /\ stop_closing' = app_transcriber
            /\ transcribers' = CloseCalled(transcribers, app_transcriber)
            /\ UNCHANGED stop_waits
    /\ UNCHANGED <<app_transcriber, app_stop_event, app_capture_task,
                   capture_tasks, task_event, start_pc, starts>>
    /\ UNCHANGED <<relayVars, sessionVars, wakeVars, arbiterVars, playbackVars,
                   mixerVars, framingVars, codecVars, mediaVars, shutdownVars,
                   diarizationVars, monitorVars>>

\* stop(): the awaited capture task has finished; close() is called on the
\* transcriber app_state holds now
StopWaitReturns ==
    /\ stop_pc = "wait"
    /\ capture_tasks[stop_waits] # "running"
    /\ stop_pc' = "closing"
    /\ stop_closing' = app_transcriber
    /\ transcribers' = CloseCalled(transcribers, app_transcriber)
    /\ UNCHANGED <<app_status, app_transcriber, app_stop_event,
                   app_capture_task, capture_tasks, task_event, events_set,
                   start_pc, stop_waits, starts>>
    /\ UNCHANGED <<relayVars, sessionVars, wakeVars, arbiterVars, playbackVars,
                   mixerVars, framingVars, codecVars, mediaVars, shutdownVars,
                   diarizationVars, monitorVars>>

\* stop(): wait_for timed out and cancelled the task it awaited; the handler
\* cancels the task app_state holds now and calls close()
StopWaitTimesOut ==
    /\ stop_pc = "wait"
    /\ capture_tasks[stop_waits] = "running"
    /\ capture_tasks' =
         [k \in Sessions |->
            IF k \in {stop_waits, app_capture_task}
               /\ capture_tasks[k] = "running"
            THEN "cancelled" ELSE capture_tasks[k]]
    /\ stop_pc' = "closing"
    /\ stop_closing' = app_transcriber
    /\ transcribers' = CloseCalled(transcribers, app_transcriber)
    /\ UNCHANGED <<app_status, app_transcriber, app_stop_event,
                   app_capture_task, task_event, events_set, start_pc,
                   stop_waits, starts>>
    /\ UNCHANGED <<relayVars, sessionVars, wakeVars, arbiterVars, playbackVars,
                   mixerVars, framingVars, codecVars, mediaVars, shutdownVars,
                   diarizationVars, monitorVars>>

\* stop(): close() has returned, the transcript is exported and processed,
\* and app_state.reset() forgets whatever app_state holds
StopResets ==
    /\ stop_pc = "closing"
    /\ stop_pc' = "idle"
    /\ app_status' = "idle"
    /\ app_transcriber' = 0
    /\ app_stop_event' = 0
    /\ app_capture_task' = 0
    /\ UNCHANGED <<transcribers, capture_tasks, task_event, events_set,
                   start_pc, stop_waits, stop_closing, starts>>
    /\ UNCHANGED <<relayVars, sessionVars, wakeVars, arbiterVars, playbackVars,
                   mixerVars, framingVars, codecVars, mediaVars, shutdownVars,
                   diarizationVars, monitorVars>>

\* ------------------------------------- TranscriptMonitor._check_transcript

\* the quick check before reading: the file has the size the last poll saw
SizeUnchanged(size, last_size) == size = last_size

\* time.time() - _last_analysis_time, in polls, as far as the cooldown goes
ElapsedAfterSleep(t) == IF t < CooldownPolls THEN t + 1 ELSE t

\* before the first analysis _last_analysis_time is 0, so that the cooldown
\* has elapsed; the transcript file is missing or empty
InitMonitor ==
    /\ file_lines = 0
    /\ mon_last_line_count = 0
    /\ mon_last_file_size = 0
    /\ elapsed_polls = CooldownPolls
    /\ analyses = 0

\* Deepgram results are appended to the transcript file, a line each (the
\* size of the file is counted in lines)
TranscriptGrows ==
    /\ file_lines < MaxFileLines
    /\ file_lines' = file_lines + 1
    /\ UNCHANGED <<mon_last_line_count, mon_last_file_size, elapsed_polls,
                   analyses>>
    /\ UNCHANGED <<relayVars, sessionVars, wakeVars, arbiterVars, playbackVars,
                   mixerVars, framingVars, codecVars, mediaVars, shutdownVars,
                   diarizationVars, serverVars>>

\* start(), one iteration: sleep(poll_interval), then _check_transcript():
\* return if the size is the one seen last, else remember the size; return if
\* the cooldown has not elapsed or fewer than min_new_lines lines are new;
\* else record the line count and the time and run the analysis
CheckTranscript ==
    /\ LET now == ElapsedAfterSleep(elapsed_polls)
           new_lines == file_lines - mon_last_line_count
       IN  IF SizeUnchanged(file_lines, mon_last_file_size)
           THEN /\ elapsed_polls' = now
                /\ UNCHANGED <<mon_last_line_count, mon_last_file_size,
                               analyses>>
           ELSE /\ mon_last_file_size' = file_lines
                /\ IF now < CooldownPolls \/ new_lines < MinNewLines
                   THEN /\ elapsed_polls' = now
                        /\ UNCHANGED <<mon_last_line_count, analyses>>
                   ELSE /\ mon_last_line_count' = file_lines
                        /\ elapsed_polls' = 0
                        /\ analyses' = analyses + 1
    /\ UNCHANGED file_lines
    /\ UNCHANGED <<relayVars, sessionVars, wakeVars, arbiterVars, playbackVars,
                   mixerVars, framingVars, codecVars, mediaVars, shutdownVars,
                   diarizationVars, serverVars>>

\* ------------------------------------------------------------ specifications

\* AudioBuffer(max_bytes) and ReconnectManager(audio_buffer) after construction
InitRelay ==
    /\ max_bytes \in 1..MaxCapacity
    /\ chunks = <<>>
    /\ buffering = FALSE
    /\ connected = TRUE
    /\ reconnect_count = 0
    /\ last_callback = "none"
    /\ sent = <<>>
    /\ next_id = 1
    /\ written = <<>>
    /\ drained = <<>>
    /\ drained_of = <<>>
    /\ last_op = "init"
    /\ last_chunk = NoChunk

\* DeepgramTranscriber(on_transcript) after construction
InitSession ==
    /\ socket = "none"
    /\ ctx_manager = FALSE
    /\ recv_task = "none"
    /\ provider = "idle"
    /\ captured = 0
    /\ provider_received = <<>>
    /\ outage_captured = {}
    /\ events = 0
    /\ send_raised = FALSE
    /\ outage_seconds = 0
    /\ closes = 0
    /\ releases = 0
    /\ last_message = "none"

Init ==
    /\ InitRelay
    /\ InitSession
    /\ InitWake
    /\ InitArbiter
    /\ InitPlayback
    /\ InitMixer
    /\ InitFraming
    /\ InitCodec
    /\ InitMedia
    /\ InitShutdown
    /\ InitDiarization
    /\ InitServer
    /\ InitMonitor

\* the buffer used directly and through its manager
NextBuffer ==
    \/ Write
    \/ Drain
    \/ SetBuffering
    \/ NotifyDisconnected
    \/ NotifyReconnected

SpecBuffer == Init /\ [][NextBuffer]_vars

\* the relay: the buffer is owned by the manager and driven only through it
NextRelay ==
    \/ Write
    \/ NotifyDisconnected
    \/ NotifyReconnected

SpecRelay == Init /\ [][NextRelay]_vars

\* the transcription session with its provider and its audio source
NextSession ==
    \/ Connect
    \/ ProviderDrops
    \/ ReceiveMessage
    \/ ReceiveLoopEnds
    \/ SendAudio
    \/ Close
    \/ Tick

SpecSession == Init /\ [][NextSession]_vars

\* the wake-word functions applied to the texts of the bounded alphabet
NextWake ==
    \/ GiveText
    \/ ApplyWake

SpecWake == Init /\ [][NextWake]_vars

\* the wake-word arbiter polling a transcript that grows
NextArbiter ==
    \/ AppendLine
    \/ Poll
    \/ LoopStep
    \/ ClaudeReturns
    \/ SpeakReturns

SpecArbiter == Init /\ [][NextArbiter]_vars

\* the voice responder with its callers and the transport
NextPlayback ==
    \/ \E t \in Speakers : Speak(t)
    \/ \E t \in Speakers : TtsReturns(t)
    \/ \E t \in Speakers : SendReturns(t)
    \/ \E t \in Speakers : SleepEnds(t)
    \/ Stop
    \/ StreamCloses
    \/ BuiltWithoutKey

SpecPlayback == Init /\ [][NextPlayback]_vars

\* the mixer with its two sources, its consumer and its owner
NextMixer ==
    \/ StartCapture
    \/ BhDeliver
    \/ MicDeliver
    \/ Mix
    \/ WaitTimesOut
    \/ CallbackReturns
    \/ SetStop
    \/ CancelCapture

SpecMixer == Init /\ [][NextMixer]_vars

\* the event loop resumes the coroutine when its wait ends (a chunk arrived,
\* or the 0.5 s timeout), and the output callback comes back
SpecMixerFair ==
    /\ Init /\ [][NextMixer]_vars
    /\ WF_vars(Mix) /\ WF_vars(WaitTimesOut) /\ WF_vars(CallbackReturns)

\* the framing loop of the playback on payloads of every length
NextFraming ==
    \/ StreamAudio
    \/ SendChunk

SpecFraming == Init /\ [][NextFraming]_vars

\* single calls of the two audio conversions
NextCodec ==
    \/ Pcm16ToMulaw
    \/ ResampleTo8khz

SpecCodec == Init /\ [][NextCodec]_vars

\* the media stream handler under every order of messages
NextMedia ==
    \/ \E c \in Connections : HandlerStarts(c)
    \/ \E c \in Connections : OnIgnored(c)
    \/ \E c \in Connections : OnStart(c)
    \/ \E c \in Connections : OnMedia(c)
    \/ \E c \in Connections : OnStop(c)
    \/ \E c \in Connections : ConnectionCloses(c)
    \/ SendOrClear

SpecMedia == Init /\ [][NextMedia]_vars

\* the tasks of a call and the shutdown of run_plus_one
NextShutdown ==
    \/ ConversationSpeaks
    \/ MonitorSpeaks
    \/ SpokenTaskSends
    \/ SpokenTaskEnds
    \/ HandlerForwards
    \/ StopSignal
    \/ ConversationEnds
    \/ CancelMonitor
    \/ MonitorEnds
    \/ CloseMediaServer
    \/ HandlerEnds
    \/ CloseTranscriber
    \/ ReceiveTaskEnds
    \/ ReleaseSocket

SpecShutdown == Init /\ [][NextShutdown]_vars

\* _dominant_speaker on every short list of words
SpecDiarization == Init /\ [][ScoreWords]_vars

\* the HTTP session: /api/start and /api/stop requests on one app_state
NextServer ==
    \/ Start
    \/ \E k \in Sessions : StartConnected(k)
    \/ \E k \in Sessions : CaptureEnds(k)
    \/ StopArrives
    \/ StopBegins
    \/ StopWaitReturns
    \/ StopWaitTimesOut
    \/ StopResets

SpecServer == Init /\ [][NextServer]_vars

\* the monitor and the transcript file it polls
NextMonitor ==
    \/ TranscriptGrows
    \/ CheckTranscript

\* the poll loop of start() never ends while the monitor runs: a poll that
\* can do something is eventually made
SpecMonitorFair ==
    Init /\ [][NextMonitor]_vars /\ WF_vars(CheckTranscript)

\* ------------------------------------------------------------------ claims

\* the longest suffix of s whose chunks together fit in cap bytes
LongestFittingSuffix(s, cap) ==
    LET fits == {i \in 1..(Len(s) + 1) : SumLen(SubSeq(s, i, Len(s))) <= cap}
        first == CHOOSE i \in fits : \A j \in fits : i <= j
    IN  SubSeq(s, first, Len(s))

\* C1: right after drain() the buffer is empty (size() = 0, chunk_count() = 0),
\* and when the chunks written while buffering since the previous drain fit
\* together within max_bytes, drain() returned exactly them in write order
\* (an empty list when nothing was written).
C1_DrainReturnsWritten ==
    last_op = "drain" =>
        /\ chunks = <<>>
        /\ SumLen(chunks) = 0
        /\ (SumLen(drained_of) <= max_bytes => drained = drained_of)

C1_Witness ==
    /\ last_op = "drain"
    /\ Len(drained_of) >= 2
    /\ SumLen(drained_of) <= max_bytes
    /\ drained = drained_of

C4_ReconnectReplaysInOrder ==
    [][(~connected /\ connected') =>
          /\ sent' = sent \o LongestFittingSuffix(written, max_bytes)
          /\ \A i, j \in 1..Len(sent') : sent'[i] = sent'[j] => i = j
          /\ chunks' = <<>>
          /\ reconnect_count' = reconnect_count + 1]_vars

C4_Witness ==
    /\ last_op = "reconnected"
    /\ reconnect_count = 2
    /\ Len(drained) >= 2
    /\ Len(sent) > Len(drained)

\* C6: driven through the manager, the buffer is in buffering mode exactly
\* when the connection state is Disconnected; a new relay is Connected with
\* buffering off.
C6_BufferingIffDisconnected ==
    /\ buffering <=> ~connected
    /\ last_op = "init" => (connected /\ ~buffering)

C6_Witness ==
    /\ last_op = "reconnected"
    /\ connected
    /\ ~buffering

\* C7: a write in passthrough mode changes nothing in the buffer: chunk
\* count, byte size and the chunks buffered earlier stay as they were.
C7_PassthroughWriteIsNoOp ==
    [][(next_id' # next_id /\ ~buffering) => chunks' = chunks]_vars

C7_Witness ==
    /\ last_op = "write_passthrough"
    /\ Len(chunks) >= 2

\* C8: notify_disconnected() on a relay that is already Disconnected leaves
\* it Disconnected and leaves the buffered chunks unchanged.
C8_DisconnectIdempotent ==
    [][(~connected /\ last_op' = "disconnected_again") =>
          (~connected' /\ buffering' /\ chunks' = chunks)]_vars

C8_Witness ==
    /\ last_op = "disconnected_again"
    /\ Len(chunks) >= 2

\* C9: reconnect_count starts at 0, never decreases, and goes up by one
\* exactly on a step from Disconnected to Connected; a notify_reconnected()
\* on a connected relay and repeated notify_disconnected() calls add nothing.
C9_CountsCompletedCycles ==
    /\ reconnect_count = 0
    /\ [][reconnect_count' =
            reconnect_count + (IF ~connected /\ connected' THEN 1 ELSE 0)]_vars

C9_Witness ==
    /\ last_op = "reconnected_again"
    /\ reconnect_count = 2

\* ids of the chunks in a sequence of chunks
IdsOf(cs) == {cs[i].id : i \in 1..Len(cs)}

\* C5: when the provider connection has dropped and the receive loop has
\* ended, the relay has been told (state Disconnected, buffering on), and
\* every chunk passed to send_audio during the outage is either buffered in
\* the relay for replay or has reached the provider, in capture order.
C5_OutageAudioBufferedAndReplayed ==
    /\ (provider = "dropped" /\ recv_task = "exited") =>
            (~connected /\ buffering)
    /\ \A id \in outage_captured :
            \/ id \in IdsOf(chunks)
            \/ \E i \in 1..Len(provider_received) : provider_received[i] = id
    /\ \A i, j \in 1..Len(provider_received) :
            i < j => provider_received[i] < provider_received[j]

\* C10: once the provider connection has been down for longer than the
\* reconnect deadline, a session-level failure has reached the owner.
C10_FailureReportedAfterDeadline ==
    (provider = "dropped" /\ outage_seconds > ReconnectDeadline) =>
        send_raised

\* the literal lit (lower case) stands at position p of t in any letter case
FoldedAt(t, p, lit) ==
    /\ p >= 1
    /\ p + Len(lit) - 1 <= Len(t)
    /\ \A k \in 1..Len(lit) : ToLower(t[p + k - 1]) = lit[k]

\* t contains lit as a substring, in any letter case
ContainsFolded(t, lit) == \E p \in 1..Len(t) : FoldedAt(t, p, lit)

AllSpaces(t, a, b) == \A k \in a..b : t[k] = " "

\* "plus" and "one" with only whitespace (or nothing) between them, no word
\* character right before "plus" or right after "one"
WordBoundedPlusOne(t) ==
    \E i, j \in 1..Len(t) :
        /\ j >= i + 4
        /\ FoldedAt(t, i, <<"p", "l", "u", "s">>)
        /\ AllSpaces(t, i + 4, j - 1)
        /\ FoldedAt(t, j, <<"o", "n", "e">>)
        /\ ~WordAt(t, i - 1)
        /\ ~WordAt(t, j + 3)

\* "+" and "1" with only whitespace (or nothing) between them, no word
\* character right after the "1"
PlusSignOne(t) ==
    \E i, j \in 1..Len(t) :
        /\ j >= i + 1
        /\ t[i] = "+"
        /\ AllSpaces(t, i + 1, j - 1)
        /\ t[j] = "1"
        /\ ~WordAt(t, j + 1)

\* C18 (as stated): has_wake_word is true exactly for the texts that contain
\* "plus one", "+1" or "hey plus one" in any letter case.
C18_DetectsIffContainsPhrase ==
    wake_done =>
        (wake_detected <=>
            \/ ContainsFolded(wake_text, <<"p", "l", "u", "s", " ", "o", "n", "e">>)
            \/ ContainsFolded(wake_text, <<"+", "1">>))

\* C18 (amended): has_wake_word is case-insensitive and matches at any
\* position; it is true exactly when the text holds "plus" and "one" separated
\* by whitespace or nothing and not adjoined by a word character, or "+" and
\* "1" separated by whitespace or nothing with no word character after the "1".
C18_DetectsWordBoundedTrigger ==
    wake_done =>
        (wake_detected <=>
            (WordBoundedPlusOne(wake_text) \/ PlusSignOne(wake_text)))

\* an upper-case trigger in the middle of the text has been detected
C18_Witness ==
    /\ wake_done
    /\ wake_detected
    /\ Search(wake_text).start > 1
    /\ wake_text[Search(wake_text).start] = "P"

\* C15: for a text with a trigger, the extracted text does not start with a
\* comma or whitespace and holds no trigger itself, and when nothing follows
\* the trigger the collected segments start empty.
C15_ExtractionExcludesTrigger ==
    (wake_done /\ wake_detected) =>
        /\ wake_question # <<>> => Head(wake_question) \notin {",", " "}
        /\ ~HasWakeWord(wake_question)
        /\ LStrip(SubSeq(wake_text, Search(wake_text).end, Len(wake_text)),
                  {",", " "}) = <<>> => wake_seed = <<>>

\* C11: at most one _ask_claude call of the handler is in flight at any time.
C11_AtMostOneCallInFlight == in_flight <= 1

\* a second call is in flight while unread lines wait in the transcript
C11_Witness ==
    /\ in_flight = 1
    /\ Len(asked) = 2
    /\ Len(transcript) > last_line_count

\* C12: a line with a trigger that was written while a reasoning call or its
\* playback was in progress never starts a collection.
C12_TriggerWhileProcessingIgnored == \A i \in started : i \notin busy_lines

\* C13: a line of a different known speaker that cut a collection short is
\* then treated as in Idle: when it holds a trigger it starts a collection.
C13_FinalizingEventEvaluatedAfresh ==
    \A i \in finalizers :
        HasWakeWord(TextOf(transcript[i])) => i \in started

StatusLine == [speaker |-> "0", body |-> StatusText]

\* C14: with the single line "hey plus one, what's our status?" of speaker 0
\* in the transcript, the collection holds the text after the trigger, it is
\* finalized by the third wake-up without new lines (the first after more
\* than 1.5 s), and exactly one call is made, with that text as the question.
C14_SingleQuestionAfterQuietPeriod ==
    transcript = <<StatusLine>> =>
        /\ Len(asked) <= 1
        /\ collecting =>
            /\ collected_lines = <<WhatsOurStatus>>
            /\ quiet < QuietPeriodTicks
            /\ asked = <<>>
        /\ (last_line_count = 1 /\ hpc # "looping" /\ ~collecting) =>
            asked = <<WhatsOurStatus>>

C14_Witness ==
    /\ transcript = <<StatusLine>>
    /\ asked = <<WhatsOurStatus>>
    /\ spoken = 1
    /\ hpc = "sleeping"

\* C16: whenever the call or the playback ends, however it ends, the handler
\* is neither processing nor collecting and holds no segments, and the next
\* line with a trigger it looks at while idle starts a collection.
C16_ProcessingReturnsToIdle ==
    [][/\ (hpc \in {"asking", "speaking"} /\ hpc' \notin {"asking", "speaking"})
            => (~processing' /\ ~collecting' /\ collected_lines' = <<>>)
       /\ (/\ hpc = "looping"
           /\ cursor' = cursor + 1
           /\ ~collecting
           /\ last_outcome # "none"
           /\ HasWakeWord(TextOf(transcript[cursor])))
            => (collecting' /\ cursor \in started')]_vars

\* after a call that raised, a later trigger has started a second collection
C16_Witness ==
    /\ last_outcome = "raises"
    /\ collecting
    /\ Len(asked) = 1
    /\ Cardinality(started) = 2

\* C17: when a collection ends with a question shorter than 3 characters, the
\* question is dropped: no call is made, nothing is spoken, and the handler
\* is idle with no segments; a longer question is not dropped.
C17_ShortQuestionDiscarded ==
    [][(collecting /\ ~collecting') =>
            IF Len(Question(collected_lines)) < MinQuestionLen
            THEN /\ discards' = discards + 1
                 /\ asked' = asked
                 /\ spoken' = spoken
                 /\ in_flight' = in_flight
                 /\ ~processing'
                 /\ collected_lines' = <<>>
                 /\ hpc' \in {"sleeping", "looping"}
            ELSE discards' = discards /\ Len(asked') = Len(asked) + 1]_vars

\* a question has been dropped and no call was ever made
C17_Witness ==
    /\ discards > 0
    /\ asked = <<>>
    /\ hpc = "sleeping"

\* C19: after a stop() call during a playback, the playback starts no further
\* send (its flag test before each frame fails), and a stop() call on a
\* connected stream hands a clear message to the transport.
C19_StopHaltsFraming ==
    /\ \A t \in Speakers : halted[t] # NotHalted => begun[t] = halted[t]
    /\ (stops > 0 /\ ms_connected) =>
            \E i \in 1..Len(wire) : wire[i].event = "clear"

\* the primary chunks the output callback was called for, in call order
PrimariesOf(es) == [i \in 1..Len(es) |-> es[i].bh]

\* C20: while the capture runs, the callbacks made so far, followed by the
\* chunks still waiting in the queue, are exactly the chunks the primary
\* source delivered, in arrival order: one callback per primary chunk and
\* none for anything else, and a loop waiting on an empty queue has emitted
\* every chunk delivered.
C20_OneCallbackPerPrimaryChunk ==
    /\ PrimariesOf(emitted) \o bh_queue = [i \in 1..bh_delivered |-> i]
    /\ (mpc = "waiting" /\ bh_queue = <<>>) => Len(emitted) = bh_delivered

\* three primary chunks were emitted, one mixed with the later of two
\* microphone chunks
C20_Witness ==
    /\ Len(emitted) = 3
    /\ mpc = "waiting"
    /\ \E i \in 1..3 : emitted[i].mic = 2
    /\ \E i \in 1..3 : emitted[i].mic = NoMic

\* C21: a callback for a primary chunk leaves the microphone queue empty; the
\* chunk is mixed with the most recent microphone chunk that was waiting, the
\* older ones are dropped, and with none waiting the primary goes out alone.
C21_SecondaryDrainedToLatest ==
    [][Len(emitted') = Len(emitted) + 1 =>
            /\ mic_queue' = <<>>
            /\ emitted'[Len(emitted')].mic =
                  (IF mic_queue = <<>> THEN NoMic ELSE mic_queue[Len(mic_queue)])
            /\ emitted'[Len(emitted')].bh = Head(bh_queue)
            /\ mic_delivered' = mic_delivered]_vars

\* two microphone chunks waited: the later one was mixed, the earlier dropped
C21_Witness ==
    /\ mic_delivered = 2
    /\ mic_queue = <<>>
    /\ \E i \in 1..Len(emitted) : emitted[i].mic = 2
    /\ \A i \in 1..Len(emitted) : emitted[i].mic # 1

RECURSIVE ConcatInOrder(_)
\* the segments in arrival order with single spaces between them
ConcatInOrder(ls) ==
    IF ls = <<>> THEN <<>>
    ELSE IF Len(ls) = 1 THEN ls[1]
    ELSE ConcatInOrder(SubSeq(ls, 1, Len(ls) - 1)) \o <<" ">> \o ls[Len(ls)]

\* C28: while collecting, a line of the collecting speaker or of no known
\* speaker is appended as the last segment and resets the quiet period
\* without ending the collection or starting a call; every question passed on
\* is the segments collected so far, joined in arrival order.
C28_SameSpeakerLinesAppended ==
    [][/\ (/\ hpc = "looping"
           /\ cursor' = cursor + 1
           /\ ~processing
           /\ collecting
           /\ transcript[cursor].speaker \in {collect_speaker, "None"})
            => /\ collecting'
               /\ collected_lines' =
                    Append(collected_lines, TextOf(transcript[cursor]))
               /\ quiet' = 0
               /\ asked' = asked
               /\ discards' = discards
               /\ in_flight' = in_flight
       /\ Len(asked') = Len(asked) + 1 =>
            asked'[Len(asked')] = Strip(ConcatInOrder(collected_lines))]_vars

\* a question of three segments, the last from a line without a speaker
C28_Witness ==
    /\ Len(asked) = 1
    /\ asked[1] = ConcatInOrder(<<WhatsOurStatus, MoreText, Stamp \o MoreText>>)

\* C29: the consumed-line counter never decreases or runs ahead of the file,
\* and the loop looks at the lines one index after the other: no line below
\* the counter is left unexamined when the handler sleeps, and none is
\* examined twice.
C29_LinesExaminedOnceInOrder ==
    /\ [](/\ last_line_count <= Len(transcript)
          /\ cursor <= last_line_count + 1
          /\ hpc = "sleeping" => cursor = last_line_count + 1
          /\ hpc = "looping" => (cursor <= loop_end /\ loop_end = last_line_count))
    /\ [][/\ last_line_count' >= last_line_count
          /\ cursor' \in {cursor, cursor + 1}
          /\ cursor' = cursor + 1 => hpc = "looping"]_vars

\* three lines were read in more than one batch and all were examined
C29_Witness ==
    /\ hpc = "sleeping"
    /\ cursor = 4
    /\ Cardinality(started) = 2

\* C24: the connection of a session is released at most once however often
\* close() is called; after a close() the session holds no socket, no context
\* manager and no running receive task; a second close(), and a close() of a
\* session that never connected, change nothing.
C24_CloseIdempotent ==
    /\ [](/\ releases <= 1
          /\ closes >= 1 =>
                (socket = "none" /\ ~ctx_manager /\ recv_task # "running"))
    /\ [][(closes' > closes /\ (closes >= 1 \/ recv_task = "none")) =>
            UNCHANGED <<socket, ctx_manager, recv_task, provider, releases>>]_vars

\* a connected session with a running receive task was closed twice
C24_Witness ==
    /\ closes = 2
    /\ releases = 1
    /\ recv_task = "cancelled"

\* C30: every message the receive loop handles gives no or one result to
\* on_transcript, and handling it never ends the loop, whatever the message.
C30_MalformedMessageDropped ==
    [][(last_message' # last_message \/ events' # events) =>
            /\ events' \in {events, events + 1}
            /\ recv_task' = recv_task]_vars

\* C22: once the loop has gone through a payload of N bytes it has sent
\* ceil(N / 160) frames, each of 160 bytes except possibly the last, whose
\* concatenation in sending order is the payload; 320 bytes give two frames
\* of 160 bytes.
C22_FramesPartitionPayload ==
    (stream_pc = "streaming" /\ stream_offset >= Len(mulaw_audio)) =>
        LET n == Len(mulaw_audio)
            k == Len(stream_frames)
        IN  /\ k = (n + TWILIO_CHUNK_SIZE - 1) \div TWILIO_CHUNK_SIZE
            /\ \A i \in 1..(k - 1) : Len(stream_frames[i]) = TWILIO_CHUNK_SIZE
            /\ k > 0 => Len(stream_frames[k]) \in 1..TWILIO_CHUNK_SIZE
            /\ Flatten(stream_frames) = mulaw_audio
            /\ n = 320 => (k = 2 /\ Len(stream_frames[2]) = 160)

\* a payload of 321 bytes went out as two whole frames and one of one byte
C22_Witness ==
    /\ Len(mulaw_audio) = 321
    /\ Len(stream_frames) = 3
    /\ Len(stream_frames[3]) = 1

\* C26: pcm16_to_mulaw turns every sample of a silent (all-zero) signal into
\* the byte 0xFF, one byte per sample, and a sample of 32000 into another
\* byte.
C26_SilenceEncodesAsAllOnes ==
    (codec_pc = "encoded" /\ ~codec_raised) =>
        LET samples == UnpackSamples(pcm_data)
        IN  /\ Len(codec_result) = Len(samples)
            /\ \A i \in 1..Len(samples) :
                /\ samples[i] = 0 => codec_result[i] = 255
                /\ samples[i] = 32000 => codec_result[i] # 255

\* a silent signal of several samples was encoded, and so was a loud sample
C26_Witness ==
    /\ codec_pc = "encoded"
    /\ Len(pcm_data) = 2 * MaxSamples
    /\ \A i \in 1..Len(pcm_data) : pcm_data[i] = 0
    /\ codec_result = [i \in 1..MaxSamples |-> 255]

\* C27: on n whole input samples resample_to_8khz returns floor(n / 2)
\* samples at 16 kHz and floor(n / 3) samples at 24 kHz; at 8 kHz it returns
\* the bytes it was given.
C27_ResampledSampleCount ==
    (codec_pc = "resampled" /\ ~codec_raised) =>
        LET n == Len(pcm_data) \div 2
        IN  /\ source_rate = 16000 => Len(codec_result) = 2 * (n \div 2)
            /\ source_rate = 24000 => Len(codec_result) = 2 * (n \div 3)
            /\ source_rate = TWILIO_SAMPLE_RATE => codec_result = pcm_data

\* five samples at 24 kHz came back as one, the first of them
C27_Witness ==
    /\ codec_pc = "resampled"
    /\ source_rate = OPENAI_TTS_SAMPLE_RATE
    /\ Len(pcm_data) = 10
    /\ Len(codec_result) = 2
    /\ codec_result = SubSeq(pcm_data, 1, 2)
    /\ UnpackSamples(pcm_data)[1] = 32000

\* C25: whatever messages the media stream handler receives and in whatever
\* order, every frame handed to the transcription callback is of the inbound
\* track; a frame tagged outbound is never handed on.
C25_OnlyInboundForwarded ==
    \A i \in 1..Len(forwarded) :
        /\ forwarded[i].track # "outbound"
        /\ forwarded[i].track \in {"inbound", "absent"}

\* two frames went to the callback though no start message ever came
C25_Witness ==
    /\ Len(forwarded) = 2
    /\ forwarded[1].track = "inbound"
    /\ ms_stream_sid = "none"
    /\ ms_messages = MaxMessages
    /\ ms_ws # 0

\* C23: when a connection is closed every task that may write to it has been
\* cancelled or has ended: the conversation and monitor tasks and any playback
\* in flight before the media stream server closes, the media handler and the
\* receive task before the transcription socket closes; no task writes to a
\* connection already closed.
C23_TasksJoinedBeforeClose ==
    /\ media_conn # "open" =>
        /\ conversation_task = "cancelled"
        /\ monitor_task = "cancelled"
        /\ spoken_task # "speaking"
    /\ deepgram_conn # "open" =>
        /\ handler_task = "ended"
        /\ receive_task = "cancelled"
    /\ late_writes = 0

C32_MajorityFirstSeenWins ==
    scored =>
        LET labelled == {i \in 1..Len(utterance) : utterance[i] \in WordLabels}
            count(l) == Cardinality({i \in labelled : utterance[i] = l})
            first(l) == CHOOSE i \in labelled :
                            /\ utterance[i] = l
                            /\ \A j \in labelled : utterance[j] = l => i <= j
        IN  IF labelled = {} THEN dominant = "None"
            ELSE /\ dominant \in WordLabels
                 /\ count(dominant) > 0
                 /\ \A l \in WordLabels :
                        /\ count(l) <= count(dominant)
                        /\ (l # dominant /\ count(l) = count(dominant))
                               => first(dominant) < first(l)

\* two labels tie at two words each among an unlabelled word, and the one
\* seen first is returned
C32_Witness ==
    /\ scored
    /\ utterance = <<"None", "s1", "s0", "s0", "s1">>
    /\ dominant = "s1"

\* C33: every sample passed on lies in the 16-bit range and is the sum of
\* the scaled primary sample and the scaled secondary sample, cut to that
\* range: at or above 32767 it is 32767, at or below -32768 it is -32768.
C33_MixedSampleClippedNotWrapped ==
    LET scaled(x, g) == IF x >= 0 THEN (x * g.num) \div g.den
                        ELSE -(((-x) * g.num) \div g.den)
        p == scaled(last_mixed.bh, speaker_volume)
        q == IF last_mixed.with_mic THEN scaled(last_mixed.mic, mic_volume)
             ELSE 0
    IN  /\ last_mixed.out \in -32768..32767
        /\ IF p >= 32767 - q THEN last_mixed.out = 32767
           ELSE IF p <= -32768 - q THEN last_mixed.out = -32768
           ELSE last_mixed.out = p + q

\* C34: when two speak() calls overlap, the frames of one utterance are not
\* sent between the frames of the other, and the return of one call leaves
\* the speaking flag of the other, still in flight, as it was.
C34_OverlappingSpeaksKeptApart ==
    /\ [](\A i, j, k \in 1..Len(wire) :
            (i < j /\ j < k /\ wire[i].event = "media" /\ wire[j].event = "media"
                /\ wire[k].event = "media" /\ wire[i].call = wire[k].call)
                => wire[j].call = wire[i].call)
    /\ [][\A t, u \in Speakers :
            (t # u /\ spc[t] # "done" /\ spc'[t] = "done"
                /\ spc[u] \in {"tts", "sending", "pacing"})
                => speaking' = speaking]_vars

\* C35: the handler is never collecting a question and processing one at the
\* same time, and whenever it is not collecting it holds no collected lines.
C35_CollectingExcludesProcessing ==
    /\ ~(collecting /\ processing)
    /\ ~collecting => collected_lines = <<>>

\* a collected question is being processed: the lines were handed on and the
\* handler is no longer collecting
C35_Witness ==
    /\ processing
    /\ ~collecting
    /\ collected_lines = <<>>
    /\ asked # <<>>
    /\ hpc = "asking"

\* C36: while a connection that has received its start message is open,
\* is_connected is true and _ws holds an open connection, so that send_audio
\* and clear_audio reach it, whatever other connection has ended; and a
\* write of send_audio or clear_audio never goes to a closed connection.
C36_OpenStreamStaysConnected ==
    /\ (\E c \in Connections : conn_state[c] = "open" /\ conn_started[c]) =>
            /\ IsConnected
            /\ conn_state[ms_ws] = "open"
    /\ last_write.to # 0 => last_write.open

\* C37: once the receive loop of a session has exited (recv() returned None
\* or raised, or _handle_result let an error through), no further result is
\* delivered to on_transcript, the task is started again by nothing but a
\* connect() of the owner on a session without socket, the socket stays set
\* until close(), and send_audio keeps forwarding chunks to the socket.
C37_ExitedLoopIsFinal ==
    [][recv_task = "exited" =>
         /\ events' = events
         /\ recv_task' # "exited" => (recv_task' = "running" /\ socket = "none")
         /\ socket' # socket => (closes' # closes \/ socket = "none")
         /\ (captured' # captured /\ socket = "open" /\ provider = "up") =>
                 provider_received' = Append(provider_received, captured')
      ]_vars

\* the loop exited on an error of _handle_result with the socket still set,
\* after it had delivered a result, and the provider has received chunks
C37_Witness ==
    /\ recv_task = "exited"
    /\ last_message = "bad_timing"
    /\ socket = "open"
    /\ provider = "up"
    /\ events > 0
    /\ captured = MaxChunks
    /\ Len(provider_received) = MaxChunks

\* C38: in the HTTP session at most one capture task and at most one
\* transcriber are live at any time, and while app_state.state is "idle" no
\* capture task runs and no transcriber is connected or connecting.
C38_OneLiveSession ==
    /\ Cardinality(LiveCaptureTasks) <= 1
    /\ Cardinality(LiveTranscribers) <= 1
    /\ app_status = "idle" => (LiveCaptureTasks = {} /\ LiveTranscribers = {})

\* the transcript has gained min_new_lines lines since the last analysis and
\* the cooldown has elapsed
AnalysisDue ==
    /\ file_lines - mon_last_line_count >= MinNewLines
    /\ elapsed_polls >= CooldownPolls

\* C39: once the transcript has gained at least min_new_lines lines since
\* the last analysis and the cooldown has elapsed, a later poll starts an
\* analysis (which records the line count and restarts the cooldown).
C39_DueAnalysisEventuallyStarts == AnalysisDue ~> ~AnalysisDue

\* C40: once stop_event is set, a running start_capture_stream terminates,
\* also when no primary chunk arrives any more; and whenever it has left its
\* loop (stop, an exception of the callback, cancellation) the primary
\* stream and the microphone stream, if there is one, are closed.
C40_StopTerminatesAndClosesStreams ==
    /\ (stop_event /\ mpc \in {"waiting", "calling"}) ~> (mpc = "stopped")
    /\ [](mpc = "stopped" =>
            /\ exit_by \in {"stop", "callback", "cancel"}
            /\ bh_stream = "closed"
            /\ has_mic => mic_stream = "closed")

\* the capture ended by the stop event without a single primary chunk, with
\* both streams closed
C40_Witness ==
    /\ mpc = "stopped"
    /\ exit_by = "stop"
    /\ stop_event
    /\ bh_delivered = 0
    /\ has_mic
    /\ mic_delivered > 0
    /\ bh_stream = "closed"
    /\ mic_stream = "closed"

====
